---- MODULE Spec2Model ----
(***************************************************************************)
(* A model of the synchronisation engine of xbrlreportsindexes:            *)
(* XbrlIndexDB (core/index_db.py) with the helpers it calls in             *)
(* core/db_utils.py and core/data_utils.py.                                *)
(*                                                                         *)
(* Several processes, each holding one XbrlIndexDB instance, work against  *)
(* the same relational store.  A step of the model is one statement group  *)
(* of one process that ends in a store round trip (a query or a commit):   *)
(* the store serialises those, everything between two of them is local.    *)
(***************************************************************************)
EXTENDS Integers, Sequences, FiniteSets, TLC

(***************************************************************************)
(* Bounds of the model.                                                    *)
(***************************************************************************)
\* rows the task tracker table may hold: caps the number of task invocations
MaxTrackers == 3
\* processes (XbrlIndexDB instances) working against the store
NumProcs == 2
\* failures of the environment (a lost connection, a page that does not load)
\* one behaviour may see
MaxFaults == 1

Procs == 1..NumProcs

(***************************************************************************)
(* Program constants.                                                      *)
(***************************************************************************)
DB_UPDATE_FEEDS == "update-feeds"
DB_INSERT_NEW_FILERS == "insert-new-filers"
DB_UPDATE_EXISTING_FILERS == "update-existing-filers"
DB_PROCESS_DUPLICATES == "process-duplicates"
DB_UPDATE_ESEF_FILINGS == "update-esef-filings"
DB_UPDATE_ESEF_ENTITIES == "update-esef-entities"
\* a link: the url's file name and, for a monthly feed, the year-month in it
LATEST_FEEDS_URL == [file |-> "xbrlrss.all.xml", ym |-> 0]
ERR_NO_TRACKER == "no-task-tracker"
ERR_EXISTING_TASK_IN_PROGRESS == "existing-task-in-progress"
ERR_FEED_NOT_LOADED == "database-not-found"
ERR_BAD_DATE_RANGE == "bad-date-range"

\* truncate_string's default length
TruncateLen == 50

\* XbrlIndexDB.is_test of the instances modelled (production instances)
is_test == FALSE

(***************************************************************************)
(* The remote world: the monthly listing page, the feed documents and the  *)
(* "latest filings" document.  A listing row is what                       *)
(* get_monthly_rss_feeds_links returns for it; an item is a ModelRssItem.  *)
(***************************************************************************)
FeedIds == {202201, 202202}
Stamps == {1, 2}

Item(acc, acpt, pub, cik, name) ==
    [accessionNumber |-> acc, enclosureUrl |-> acc, acceptanceDatetime |-> acpt,
     pubDate |-> pub, cikNumber |-> cik, companyName |-> name, nfiles |-> 1]

\* the document behind a monthly link, as last modified at `stamp`
MonthlyDoc(feed_id, stamp) ==
    IF feed_id = 202201
    THEN IF stamp = 1 THEN << Item("a1", 2, 2, "c1", "Acme") >>
         ELSE << Item("a2", 3, 3, "c2", "Globex"), Item("a1", 2, 2, "c1", "Acme") >>
    ELSE << Item("a1", 4, 4, "c1", "Acme Inc") >>

\* the documents the latest-filings link may serve: lastBuildDate's month and items
LatestDocs ==
    { [build |-> 202202, items |-> << Item("a1", 4, 4, "c1", "Acme Inc") >>],
      [build |-> 202203, items |-> << Item("a3", 5, 5, "c2", "Globex") >>] }

\* a datetime, at the granularity the feed filter needs: year-month and day
Date(ym, d) == [type |-> "datetime", ym |-> ym, d |-> d]
\* calendar.monthrange(year, month)[1] for the months of the model
LastDay(yyyymm) == IF yyyymm = 202202 THEN 28 ELSE 31

\* a row of get_monthly_rss_feeds_links: feed_date is the last day of the
\* feed's month (of a month that has ended)
ListingRow(feed_id, stamp, last) ==
    [feed_id |-> feed_id, last_modified_date |-> stamp,
     link |-> [file |-> "xbrlrss-yyyy-mm.xml", ym |-> feed_id],
     feed_date |-> Date(feed_id, LastDay(feed_id)),
     is_last_month |-> last]

\* results of get_monthly_rss_feeds_links: sorted by feed_date, the last row
\* flagged, or empty when the page could not be read
Listings ==
    { << >> }
    \cup { << ListingRow(202201, s, TRUE) >> : s \in Stamps }
    \cup { << ListingRow(202201, s, FALSE), ListingRow(202202, t, TRUE) >> :
             s \in Stamps, t \in Stamps }

\* get_filer_information: what the SEC page of a cik gives
FilerInfo(cik) ==
    IF cik = "c1"
    THEN [cik_number |-> "c1", conformed_name |-> "ACME CORP",
          former_names |-> << [date_changed |-> 1, name |-> "Acme Old"],
                              [date_changed |-> 1, name |-> "Acme Old"] >>]
    ELSE [cik_number |-> cik, conformed_name |-> "Globex", former_names |-> << >>]

\* the characters of the texts of the model
Chars(txt) ==
    CASE txt = "Acme" -> << "A", "c", "m", "e" >>
      [] txt = "Acme Inc" -> << "A", "c", "m", "e", " ", "I", "n", "c" >>
      [] txt = "ACME CORP" -> << "A", "C", "M", "E", " ", "C", "O", "R", "P" >>
      [] txt = "Acme Corp" -> << "A", "c", "m", "e", " ", "C", "o", "r", "p" >>
      [] txt = "Acme Old" -> << "A", "c", "m", "e", " ", "O", "l", "d" >>
      [] txt = "Globex" -> << "G", "l", "o", "b", "e", "x" >>
      [] txt = "acme" -> << "a", "c", "m", "e" >>
      [] txt = "ACME" -> << "A", "C", "M", "E" >>
      [] txt = "globex" -> << "g", "l", "o", "b", "e", "x" >>
      [] txt = " acme" -> << " ", "a", "c", "m", "e" >>
      [] txt = "inc" -> << "i", "n", "c" >>
      [] txt = "c1" -> << "c", "1" >>
      [] txt = "c2" -> << "c", "2" >>
      [] txt = "c3" -> << "c", "3" >>
      [] txt = "c4" -> << "c", "4" >>
      [] txt = "sec" -> << "s", "e", "c" >>
      [] txt = "SEC" -> << "S", "E", "C" >>
      [] txt = "esef" -> << "e", "s", "e", "f" >>
      [] txt = "edgar" -> << "e", "d", "g", "a", "r" >>
      [] txt = "L1" -> << "L", "1" >>
      [] txt = "l1" -> << "l", "1" >>
      [] txt = "Initech" -> << "I", "n", "i", "t", "e", "c", "h" >>
      [] txt = "Mining" -> << "M", "i", "n", "i", "n", "g" >>
      [] txt = "Gold Mining" -> << "G", "o", "l", "d", " ", "M", "i", "n", "i", "n", "g" >>
      [] txt = "Gold Ore" -> << "G", "o", "l", "d", " ", "O", "r", "e" >>
      [] txt = "Retail" -> << "R", "e", "t", "a", "i", "l" >>
      [] txt = "retail" -> << "r", "e", "t", "a", "i", "l" >>
      [] txt = "" -> << >>

\* str.lower and func.lower on one character
LowerChar(ch) ==
    CASE ch = "A" -> "a" [] ch = "C" -> "c" [] ch = "M" -> "m" [] ch = "E" -> "e"
      [] ch = "O" -> "o" [] ch = "R" -> "r" [] ch = "P" -> "p" [] ch = "G" -> "g"
      [] ch = "I" -> "i" [] ch = "S" -> "s" [] ch = "L" -> "l" [] OTHER -> ch

\* str.lower on a sequence of characters
LowerSeq(cs) == [i \in 1..Len(cs) |-> LowerChar(cs[i])]

\* func.lower on a text: its characters in lower case
Lower(name) == LowerSeq(Chars(name))

\* the ESEF catalog document (index.json): entities in document order, each
\* with its filing keys in document order
EsefIndex == << [lei |-> "L1", filings |-> << "k1" >>] >>

\* the remote side as one value: the monthly listing, the latest-filings
\* document and the ESEF catalog
Remote(listing, latest) == [listing |-> listing, latest |-> latest, esef_index |-> EsefIndex]
Remotes == { Remote(l, d) : l \in Listings, d \in LatestDocs }

(***************************************************************************)
(* Python values of the model.                                             *)
(***************************************************************************)
None == [type |-> "NoneType"]
\* a string: a text and its length in characters
Str(txt, len) == [type |-> "str", txt |-> txt, len |-> len]
\* an exception object of class cls
Exc(cls) == [type |-> "exception", cls |-> cls]
IsStr(x) == x.type = "str"

\* exceptions: DBAPIError subclasses carry the driver's exception as .orig
DbErrors == {"IntegrityError", "OperationalError"}
HasOrig(err) == err \in DbErrors

\* str(err)
ErrText(err) ==
    IF err = "IntegrityError" THEN Str("UNIQUE constraint failed", 60)
    ELSE IF err = "OperationalError" THEN Str("database is locked", 55)
    ELSE IF err = "AssertionError" THEN Str("", 0)
    ELSE Str(err, 18)

\* data_utils.truncate_string
truncate_string(str_x) ==
    IF str_x.len > TruncateLen THEN [str_x EXCEPT !.len = TruncateLen] ELSE str_x

\* getattr(stats[1], "orig", str(stats[1])) of update_feeds
NoteOfStats(err) == IF HasOrig(err) THEN Exc(err) ELSE ErrText(err)

(***************************************************************************)
(* The store and the processes.                                            *)
(***************************************************************************)
VARIABLES
    faults,      \* failures the environment may still inject
    remote,      \* what the remote side serves
    trackers,    \* table task_tracker: a sequence of rows, task_id = position
    lastUpdate,  \* table last_update: task name -> number of rows
    db,          \* the data tables
    pc,          \* per process: where it stands
    op,          \* per process: the tracker-wrapped operation in progress
    cur,         \* per process: current_task_tracker (a task_id, 0 for None)
    existing,    \* per process: make_tracker's query result (a task_id, 0 for None)
    ok,          \* per process: what make_tracker returned
    incl,        \* per process: update_feeds' include_latest
    todo,        \* per process: update_feeds' new_and_modified_feeds
    idx,         \* per process: feeds of this run attempted so far
    txn,         \* per process: the feed being merged and conn1's uncommitted writes
    work,        \* per process: the work sets of the filer and ESEF operations
    closeCalls,  \* per process: _close_tracker calls of the update_feeds in progress
    result,      \* per process: how the last operation ended
    closedSince, \* per process: tasks whose open tracker it closed, no other
                 \* process having opened one of that task since
    diffCall,    \* a call of get_new_and_modified_feeds: arguments and result
    filterCall,  \* a call of date_filter_feeds: arguments and result
    searchCall,  \* a call of search_filings: arguments and the rows of its query
    libCall,     \* a call of one function on its own: arguments and result
    prepCall     \* a call of load_and_prep_feed and the row extraction: arguments
                 \* and results

vars == << faults, remote, trackers, lastUpdate, db, pc, op, cur, existing, ok, incl, todo,
           idx, txn, work, closeCalls, result, closedSince, diffCall,
           filterCall, prepCall, searchCall, libCall >>

Tasks == { DB_UPDATE_FEEDS, DB_INSERT_NEW_FILERS, DB_UPDATE_EXISTING_FILERS,
           DB_PROCESS_DUPLICATES, DB_UPDATE_ESEF_FILINGS, DB_UPDATE_ESEF_ENTITIES }

NoTxn == [stage |-> "none"]

(***************************************************************************)
(* Task tracker rows.                                                      *)
(***************************************************************************)
\* the note make_tracker writes when the task is already running
AbortedMsg == Str("Aborted: task is already running", 95)

\* the row make_tracker adds; `found` is the open tracker its query returned
TrackerRow(task, found) ==
    [task_name |-> task,
     is_closed |-> found # 0, is_completed |-> FALSE, is_interrupted |-> found # 0,
     total_items |-> 0, completed_items |-> 0, successful_items |-> 0,
     failed_items |-> 0,
     task_notes |-> IF found # 0 THEN << AbortedMsg >> ELSE << >>]

\* a query that forgets the is_closed filter: the first tracker of the task
OpenTrackerQueryAnyRow(rows, task) ==
    LET found == { i \in 1..Len(rows) : rows[i].task_name = task }
    IN IF found = {} THEN 0 ELSE CHOOSE i \in found : \A j \in found : i <= j

\* make_tracker's query: the first open tracker of the task, 0 when there is none
OpenTrackerQuery(rows, task) ==
    LET open == { i \in 1..Len(rows) :
                    rows[i].task_name = task /\ ~rows[i].is_closed }
    IN IF open = {} THEN 0 ELSE CHOOSE i \in open : \A j \in open : i <= j

\* the notes column after appending a note ("|" joins the pieces)
AppendNote(notes, note) == IF IsStr(note) THEN Append(notes, truncate_string(note)) ELSE notes

\* counts that leave a failed item out of completed_items
AdvancedRowSuccessOnly(row, count, is_successful, note) ==
    [row EXCEPT !.completed_items = @ + (IF is_successful THEN count ELSE 0),
                !.successful_items = @ + (IF is_successful THEN count ELSE 0),
                !.failed_items = @ + (IF is_successful THEN 0 ELSE count),
                !.task_notes = AppendNote(@, note)]

\* _advance_tracker_counts on a row
AdvancedRow(row, count, is_successful, note) ==
    [row EXCEPT !.completed_items = @ + count,
                !.successful_items = @ + (IF is_successful THEN count ELSE 0),
                !.failed_items = @ + (IF is_successful THEN 0 ELSE count),
                !.task_notes = AppendNote(@, note)]

\* _close_tracker on a row
ClosedRow(row, is_completed, is_interrupted, note) ==
    [row EXCEPT !.is_closed = TRUE,
                !.is_interrupted = is_interrupted,
                !.is_completed = is_completed,
                !.task_notes = AppendNote(@, note)]

(***************************************************************************)
(* Dates, at the granularity the feed filter needs: << yyyymm, day >>.     *)
(***************************************************************************)
DateMin == Date(0, 0)
DateMax == Date(999999, 99)
DateLE(a, b) == a.ym < b.ym \/ (a.ym = b.ym /\ a.d <= b.d)
\* the feed_date get_monthly_rss_feeds_links gave a listing row
FeedDate(row) == row.feed_date

\* date_filter_feeds' upper bound: the end of to_date's month
ToDateBound(to_date) ==
    IF to_date = None THEN DateMax ELSE Date(to_date.ym, LastDay(to_date.ym))
FromDateBound(from_date) == IF from_date = None THEN DateMin ELSE from_date

\* date_filter_feeds raises ERR_BAD_DATE_RANGE
BadDateRange(from_date, to_date) ==
    /\ ~(from_date = None /\ to_date = None)
    /\ ~DateLE(FromDateBound(from_date), ToDateBound(to_date))

RECURSIVE FilterLoop(_, _, _, _, _)
FilterLoop(fs, lo, hi, keep_last, last_appended) ==
    IF fs = << >> THEN << >>
    ELSE LET f == Head(fs)
             inr == DateLE(lo, FeedDate(f)) /\ DateLE(FeedDate(f), hi)
             la == last_appended \/ (inr /\ f.is_last_month)
             first == IF inr THEN << f >> ELSE << >>
             second == IF keep_last /\ ~la /\ f.is_last_month THEN << f >> ELSE << >>
         IN first \o second \o FilterLoop(Tail(fs), lo, hi, keep_last, la)

\* a filter that appends the last listing row whether or not the range held it
date_filter_feeds_appends_last(all_feeds, from_date, to_date, keep_last) ==
    IF from_date = None /\ to_date = None THEN all_feeds
    ELSE FilterLoop(all_feeds, FromDateBound(from_date), ToDateBound(to_date), FALSE, FALSE)
         \o (IF keep_last /\ all_feeds # << >> THEN << all_feeds[Len(all_feeds)] >> ELSE << >>)

\* data_utils.date_filter_feeds (for a valid range)
date_filter_feeds(all_feeds, from_date, to_date, keep_last) ==
    IF from_date = None /\ to_date = None THEN all_feeds
    ELSE FilterLoop(all_feeds, FromDateBound(from_date), ToDateBound(to_date),
                    keep_last, FALSE)

(***************************************************************************)
(* The feed diff.                                                          *)
(***************************************************************************)
\* XbrlIndexDB.get_existing_feeds: feed_id -> last_modified_date
get_existing_feeds(feedRows) ==
    [i \in { r.feed_id : r \in feedRows } |->
        (CHOOSE r \in feedRows : r.feed_id = i).last_modified_date]

\* a comparison that takes an unchanged stamp for a modification
FeedStatusNotOlder(existing_feeds_dict, x) ==
    IF x.feed_id \notin DOMAIN existing_feeds_dict THEN "new"
    ELSE IF x.last_modified_date >= existing_feeds_dict[x.feed_id] THEN "modified"
    ELSE "unchanged"

\* the branch get_new_and_modified_feeds takes for one listing row
FeedStatus(existing_feeds_dict, x) ==
    IF x.feed_id \notin DOMAIN existing_feeds_dict THEN "new"
    ELSE IF x.last_modified_date > existing_feeds_dict[x.feed_id] THEN "modified"
    ELSE "unchanged"

Tagged(x, status) ==
    [feed_id |-> x.feed_id, last_modified_date |-> x.last_modified_date,
     link |-> x.link, is_last_month |-> x.is_last_month, new_or_modified |-> status]

RECURSIVE ClassifyFeeds(_, _)
ClassifyFeeds(existing_feeds_dict, fs) ==
    IF fs = << >> THEN << >>
    ELSE LET x == Head(fs)
             st == FeedStatus(existing_feeds_dict, x)
         IN (IF st = "unchanged" THEN << >> ELSE << Tagged(x, st) >>)
            \o ClassifyFeeds(existing_feeds_dict, Tail(fs))

\* list.sort(key=sort_key): a stable sort on feed_id
RECURSIVE InsertByFeedId(_, _)
InsertByFeedId(x, s) ==
    IF s = << >> THEN << x >>
    ELSE IF x.feed_id <= Head(s).feed_id THEN << x >> \o s
    ELSE << Head(s) >> \o InsertByFeedId(x, Tail(s))

RECURSIVE SortByFeedId(_)
SortByFeedId(s) ==
    IF s = << >> THEN << >> ELSE InsertByFeedId(Head(s), SortByFeedId(Tail(s)))

\* data_utils.get_new_and_modified_feeds
get_new_and_modified_feeds(existing_feeds_dict, fs) ==
    SortByFeedId(ClassifyFeeds(existing_feeds_dict, fs))

\* db_utils.prep_monthly_feeds_to_process, given the listing that was fetched
prep_monthly_feeds_to_process(existing_feeds_dict, all_feeds, from_date, to_date, include_latest) ==
    IF all_feeds = << >> THEN << >>
    ELSE get_new_and_modified_feeds(
             existing_feeds_dict,
             date_filter_feeds(all_feeds, from_date, to_date, include_latest))

\* update_feeds' latest_feed_dict
latest_feed_dict ==
    [feed_id |-> 0, last_modified_date |-> 0, link |-> LATEST_FEEDS_URL,
     is_last_month |-> FALSE, new_or_modified |-> "latest"]

(***************************************************************************)
(* Preparing one feed: surrogate ids, the items to insert, the rows.       *)
(* A filing id feed_id * 10^6 + n is kept as the pair [feed, n], a file id *)
(* filing_id * 1000 + sequence as the pair [filing, seq].                  *)
(***************************************************************************)
FilingId(feed_id, n) == [feed |-> feed_id, n |-> n]
IdLE(a, b) == a.feed < b.feed \/ (a.feed = b.feed /\ a.n <= b.n)
\* the n of int(str(feed_id) + "100001")
FirstSeq == 100001

\* items left in document order
SortByPubDateSkipped(s) == s

\* rss_items.sort(key=pubDate): a stable sort
RECURSIVE InsertByPubDate(_, _)
InsertByPubDate(x, s) ==
    IF s = << >> THEN << x >>
    ELSE IF x.pubDate <= Head(s).pubDate THEN << x >> \o s
    ELSE << Head(s) >> \o InsertByPubDate(x, Tail(s))

RECURSIVE SortByPubDate(_)
SortByPubDate(s) ==
    IF s = << >> THEN << >> ELSE InsertByPubDate(Head(s), SortByPubDate(Tail(s)))

\* data_utils.get_feed_info: the Feed row of a loaded document.  `doc` is
\* [build, items]; build is lastBuildDate's month, read for the latest feed only
get_feed_info(feed, doc) ==
    [feed_id |-> IF feed.link = LATEST_FEEDS_URL THEN doc.build ELSE feed.link.ym,
     last_modified_date |-> IF feed.link = LATEST_FEEDS_URL THEN doc.build
                            ELSE feed.last_modified_date,
     feed_link |-> feed.link]

\* the tuple get_new_or_modified_filings compares
ItemTuple(i) ==
    [a |-> i.accessionNumber, u |-> i.enclosureUrl, t |-> i.acceptanceDatetime,
     p |-> i.pubDate, c |-> i.cikNumber]
RowTuple(r) ==
    [a |-> r.accession_number, u |-> r.enclosure_url, t |-> r.acceptance_datetime,
     p |-> r.pub_date, c |-> r.cik_number]

SeqRange(s) == { s[i] : i \in 1..Len(s) }

\* func.max(SecFeed.feed_id): 0 stands for NULL
MaxFeedId(feedRows) ==
    IF feedRows = {} THEN 0
    ELSE CHOOSE i \in { r.feed_id : r \in feedRows } :
            \A r \in feedRows : r.feed_id <= i

\* data_utils.get_new_or_modified_filings; rss_items as get_feed_info sorted them
get_new_or_modified_filings(dbv, feed_id, rss_items, is_modified, is_latest) ==
    IF ~is_modified /\ ~is_latest THEN rss_items
    ELSE LET of_feed == IF is_latest THEN MaxFeedId(dbv.feeds) ELSE feed_id
             existing_filings_set ==
                 { RowTuple(r) : r \in { x \in dbv.filings : x.feed_id = of_feed } }
             discovered_filings_set == { ItemTuple(i) : i \in SeqRange(rss_items) }
             accessions ==
                 { x.a : x \in discovered_filings_set \ existing_filings_set }
             InResult(i) == i.accessionNumber \in accessions
         IN SortByPubDate(SelectSeq(rss_items, InResult))

\* an initial id that goes on after the stored ids of the feed_id for any feed
InitialFilingIdAfterStored(dbv, feed_id, is_modified, is_latest) ==
    LET of_feed == { r.filing_id : r \in { x \in dbv.filings : x.feed_id = feed_id } }
        last == CHOOSE i \in of_feed : \A j \in of_feed : IdLE(j, i)
    IN IF of_feed # {}
       THEN FilingId(last.feed, last.n + 1)
       ELSE FilingId(feed_id, FirstSeq)

\* load_and_prep_feed's initial_filing_id
InitialFilingId(dbv, feed_id, is_modified, is_latest) ==
    LET of_feed == { r.filing_id : r \in { x \in dbv.filings : x.feed_id = feed_id } }
        last == CHOOSE i \in of_feed : \A j \in of_feed : IdLE(j, i)
    IN IF (is_modified \/ is_latest) /\ of_feed # {}
       THEN FilingId(last.feed, last.n + 1)
       ELSE FilingId(feed_id, FirstSeq)

\* data_utils.get_filing_info
get_filing_info(i, feed_id, filing_id) ==
    [filing_id |-> filing_id, feed_id |-> feed_id,
     accession_number |-> i.accessionNumber, enclosure_url |-> i.enclosureUrl,
     acceptance_datetime |-> i.acceptanceDatetime, pub_date |-> i.pubDate,
     cik_number |-> i.cikNumber, company_name |-> i.companyName, duplicate |-> 0]

\* data_utils.get_files_info: one row per xbrlFile of the item
get_files_info(i, feed_id, filing_id) ==
    [k \in 1..i.nfiles |->
        [file_id |-> [filing |-> filing_id, seq |-> k], filing_id |-> filing_id,
         feed_id |-> feed_id, accession_number |-> i.accessionNumber,
         duplicate |-> 0]]

RECURSIVE InsertRowByPubDate(_, _)
InsertRowByPubDate(x, s) ==
    IF s = << >> THEN << x >>
    ELSE IF x.pub_date <= Head(s).pub_date THEN << x >> \o s
    ELSE << Head(s) >> \o InsertRowByPubDate(x, Tail(s))

RECURSIVE SortRowsByPubDate(_)
SortRowsByPubDate(s) ==
    IF s = << >> THEN << >>
    ELSE InsertRowByPubDate(Head(s), SortRowsByPubDate(Tail(s)))

RECURSIVE Flatten(_)
Flatten(ss) == IF ss = << >> THEN << >> ELSE Head(ss) \o Flatten(Tail(ss))

\* db_utils.extract_filings_data_from_rss_items: filing k of the list gets
\* initial_filing_id + k - 1.  The files are built in file_id order already.
extract_filings_data_from_rss_items(feed_id, initial_filing_id, items) ==
    LET id(k) == FilingId(initial_filing_id.feed, initial_filing_id.n + k - 1)
    IN [filings_list |->
            SortRowsByPubDate(
                [k \in 1..Len(items) |-> get_filing_info(items[k], feed_id, id(k))]),
        files_list |->
            Flatten([k \in 1..Len(items) |-> get_files_info(items[k], feed_id, id(k))])]

\* db_utils.load_and_prep_feed, for a document that loaded
load_and_prep_feed(dbv, feed, doc) ==
    LET is_modified == feed.new_or_modified = "modified"
        is_latest == feed.link = LATEST_FEEDS_URL
        feed_data == get_feed_info(feed, doc)
        rss_items == SortByPubDate(doc.items)
    IN [feed_data |-> feed_data,
        initial_filing_id |->
            InitialFilingId(dbv, feed_data.feed_id, is_modified, is_latest),
        new_or_modified_filings |->
            get_new_or_modified_filings(dbv, feed_data.feed_id, rss_items,
                                        is_modified, is_latest),
        is_modified |-> is_modified, is_latest |-> is_latest]

(***************************************************************************)
(* The store connection: statements run inside a transaction that only     *)
(* commit() makes visible (the engine is created with future=True); a      *)
(* connection closed without commit() rolls its statements back.           *)
(***************************************************************************)
Stmt(action, table, rows) == [action |-> action, table |-> table, rows |-> rows]

KeyOf(table, r) ==
    IF table = "feeds" THEN r.feed_id
    ELSE IF table = "filings" THEN r.filing_id
    ELSE IF table = "files" THEN r.file_id
    ELSE IF table = "filers" THEN r.cik_number
    ELSE IF table = "esef_filings" THEN r.filing_id
    ELSE r.entity_lei

\* a statement on the tables' content
ApplyStmt(dbv, st) ==
    IF st.action = "insert"
    THEN [dbv EXCEPT ![st.table] = @ \cup st.rows]
    ELSE \* update(feed_table).where(feed_id == ...).values(**feed_data)
         [dbv EXCEPT ![st.table] =
            { r \in @ : \A n \in st.rows : KeyOf(st.table, n) # KeyOf(st.table, r) }
            \cup { n \in st.rows :
                     \E r \in @ : KeyOf(st.table, n) = KeyOf(st.table, r) }]

RECURSIVE ApplyAll(_, _)
ApplyAll(dbv, stmts) ==
    IF stmts = << >> THEN dbv ELSE ApplyAll(ApplyStmt(dbv, Head(stmts)), Tail(stmts))

\* the primary key check of an insert
Violates(dbv, st) ==
    /\ st.action = "insert"
    /\ \/ \E n \in st.rows : \E r \in dbv[st.table] :
             KeyOf(st.table, n) = KeyOf(st.table, r)
       \/ \E m, n \in st.rows : m # n /\ KeyOf(st.table, m) = KeyOf(st.table, n)

Conn(dbv, pending) == [db |-> dbv, pending |-> pending, err |-> "none"]

\* conn.execute(stmt)
Execute(conn, st) ==
    IF Violates(ApplyAll(conn.db, conn.pending), st)
    THEN [conn EXCEPT !.err = "IntegrityError"]
    ELSE [conn EXCEPT !.pending = Append(@, st)]

\* conn.commit()
Commit(conn) ==
    [db |-> ApplyAll(conn.db, conn.pending), pending |-> << >>, err |-> "none"]

\* an insert helper that commits whatever its caller asked for
insert_or_delete_rows_autocommit(conn, table, rows, commit) ==
    LET c == Execute(conn, Stmt("insert", table, rows))
    IN IF c.err = "none" THEN Commit(c) ELSE c

\* db_utils.insert_or_delete_rows(conn, "insert", table, data, commit)
insert_or_delete_rows(conn, table, rows, commit) ==
    LET c == Execute(conn, Stmt("insert", table, rows))
    IN IF c.err = "none" /\ commit THEN Commit(c) ELSE c


(***************************************************************************)
(* Duplicates, filers and the ESEF catalog: what the operations compute.   *)
(***************************************************************************)
MinId(ids) == CHOOSE i \in ids : \A j \in ids : IdLE(i, j)
MaxId(ids) == CHOOSE i \in ids : \A j \in ids : IdLE(j, i)

\* the view with max(filing_id) in place of min(filing_id)
ViewDuplicateFilingMax(filings) ==
    LET untagged == { f \in filings : f.duplicate = 0 }
        group(a) == { f.filing_id : f \in { g \in untagged : g.accession_number = a } }
    IN { MaxId(group(a)) :
           a \in { f.accession_number :
                     f \in { g \in untagged : Cardinality(group(g.accession_number)) > 1 } } }

\* the view without its test of the flag: tagged rows are counted and chosen too
ViewDuplicateFilingAnyFlag(filings) ==
    LET group(a) == { f.filing_id : f \in { g \in filings : g.accession_number = a } }
    IN { MinId(group(a)) :
           a \in { f.accession_number :
                     f \in { g \in filings : Cardinality(group(g.accession_number)) > 1 } } }

\* the view v_duplicate_filing: of every accession number that more than one
\* untagged filing carries, min(filing_id)
ViewDuplicateFiling(filings) ==
    LET untagged == { f \in filings : f.duplicate = 0 }
        group(a) == { f.filing_id : f \in { g \in untagged : g.accession_number = a } }
    IN { MinId(group(a)) :
           a \in { f.accession_number :
                     f \in { g \in untagged : Cardinality(group(g.accession_number)) > 1 } } }

\* an update that reaches every filing of the accession numbers of the view
TagDuplicatesByAccession(dbv, ids) ==
    LET accs == { f.accession_number : f \in { g \in dbv.filings : g.filing_id \in ids } }
    IN [dbv EXCEPT
          !.filings = { IF f.accession_number \in accs THEN [f EXCEPT !.duplicate = 1] ELSE f :
                          f \in @ },
          !.files = { IF f.accession_number \in accs THEN [f EXCEPT !.duplicate = 1] ELSE f :
                        f \in @ }]

\* the update of the filings without the update of the files
TagDuplicatesFilingsOnly(dbv, ids) ==
    [dbv EXCEPT
       !.filings = { IF f.filing_id \in ids THEN [f EXCEPT !.duplicate = 1] ELSE f : f \in @ }]

\* the two update statements of detect_and_tag_duplicates
TagDuplicates(dbv, ids) ==
    [dbv EXCEPT
       !.filings = { IF f.filing_id \in ids THEN [f EXCEPT !.duplicate = 1] ELSE f : f \in @ },
       !.files = { IF f.filing_id \in ids THEN [f EXCEPT !.duplicate = 1] ELSE f : f \in @ }]

\* the default of search_filings' limit
DefaultLimit == 100

\* a string argument of search_filings: the day parser.parse reads from a
\* date, or the pieces of a comma separated string, stripped
DateArg(day) == [type |-> "str", day |-> day]
ListArg(pieces) == [type |-> "str", pieces |-> pieces]

\* a date argument parser.parse cannot read
Unparseable == [type |-> "str", txt |-> "2022-13-45"]

\* check_date: parser.parse reads a day from the argument
check_date(param) == "day" \in DOMAIN param

\* str.strip on a sequence of characters
RECURSIVE Strip(_)
Strip(cs) ==
    IF cs = << >> THEN cs
    ELSE IF Head(cs) = " " THEN Strip(Tail(cs))
    ELSE IF cs[Len(cs)] = " " THEN Strip(SubSeq(cs, 1, Len(cs) - 1))
    ELSE cs

\* col LIKE '%' + x + '%' for an x without the wildcards of LIKE
Like(col, x) == \E i \in 0..(Len(col) - Len(x)) : SubSeq(col, i + 1, i + Len(x)) = x

\* or_(func.lower(col).like('%' + x.lower().strip() + '%') for x in the pieces)
LikeAny(col, arg) == \E x \in arg.pieces : Like(Lower(col), Strip(LowerSeq(Chars(x))))

\* int(x.strip()) on the industry codes of the model
to_int(x) == CASE x = "10" -> 10 [] x = "11" -> 11 [] x = "12" -> 12 [] x = "20" -> 20

\* table sec_industry: Mining (10) > Gold Mining (11) > Gold Ore (12), Retail (20)
SecIndustry ==
    { [industry_id |-> 1, industry_classification |-> "SEC", industry_code |-> 10,
       industry_description |-> "Mining", depth |-> 1, parent_id |-> 0],
      [industry_id |-> 2, industry_classification |-> "SEC", industry_code |-> 11,
       industry_description |-> "Gold Mining", depth |-> 2, parent_id |-> 1],
      [industry_id |-> 3, industry_classification |-> "SEC", industry_code |-> 12,
       industry_description |-> "Gold Ore", depth |-> 3, parent_id |-> 2],
      [industry_id |-> 4, industry_classification |-> "SEC", industry_code |-> 20,
       industry_description |-> "Retail", depth |-> 1, parent_id |-> 0] }

\* get_an_industry_tree.get_industry_row: the code of the row, then its children's
RECURSIVE get_industry_row(_)
get_industry_row(inst) ==
    { inst.industry_code } \cup
    UNION { get_industry_row(child) : child \in { r \in SecIndustry : r.parent_id = inst.industry_id } }

\* XbrlIndexDB.get_an_industry_tree(industry_codes): the codes of the tree rows
get_an_industry_tree(industry_codes) ==
    UNION { get_industry_row(x) :
              x \in { r \in SecIndustry : /\ r.industry_classification = "SEC"
                                          /\ r.industry_code \in industry_codes } }

\* Python's NotImplemented
NotImplemented == [type |-> "NotImplementedType"]

\* the outer join of a filing with sec_industry: its industry descriptions
IndustryDescriptions(f) ==
    { r.industry_description : r \in { x \in SecIndustry : /\ x.industry_classification = "SEC"
                                                           /\ x.industry_code = f.assigned_sic } }

\* search_filings' filter_list for the SEC schema: a row matches when it
\* passes the condition of every criterion that is given
MatchesFilters(f, c) ==
    /\ c.publication_date_from # None => f.pub_date >= c.publication_date_from.day
    /\ c.publication_date_to # None => f.pub_date < c.publication_date_to.day + 1
    /\ c.filing_number # None => f.accession_number \in c.filing_number.pieces
    /\ c.filer_identifier # None => \E x \in c.filer_identifier.pieces : Lower(f.cik_number) = Chars(x)
    /\ (c.industry_code # None /\ c.industry_code_tree = None) =>
          f.assigned_sic \in { to_int(x) : x \in c.industry_code.pieces }
    /\ (c.industry_name # None /\ c.industry_code = None /\ c.industry_code_tree = NotImplemented) =>
          \E d \in IndustryDescriptions(f) : LikeAny(d, c.industry_name)
    /\ c.industry_code_tree # None =>
          f.assigned_sic \in get_an_industry_tree({ to_int(x) : x \in c.industry_code_tree.pieces })
    /\ c.filer_name # None => LikeAny(f.company_name, c.filer_name)

\* search_filings' filter_list for the ESEF schema: the industry criteria
\* are ignored, the name is the legal name of the joined entity
EsefMatchesFilters(dbv, f, c) ==
    /\ c.publication_date_from # None => f.date_added >= c.publication_date_from.day
    /\ c.publication_date_to # None => f.date_added < c.publication_date_to.day + 1
    /\ c.filing_number # None => f.filing_key \in c.filing_number.pieces
    /\ c.filer_identifier # None => \E x \in c.filer_identifier.pieces : Lower(f.entity_lei) = Chars(x)
    /\ c.filer_name # None =>
          \E e \in dbv.esef_entities : e.entity_lei = f.entity_lei /\ LikeAny(e.lei_legal_name, c.filer_name)

\* result_qry.limit(limit): without an order the limit keeps any `limit` rows
Limited(rows, limit) ==
    { out \in SUBSET rows :
        Cardinality(out) = IF Cardinality(rows) < limit THEN Cardinality(rows) ELSE limit }

\* XbrlIndexDB.search_filings("sec", ...): the results the query may give
search_filings(dbv, c, limit) == Limited({ f \in dbv.filings : MatchesFilters(f, c) }, limit)

\* XbrlIndexDB.search_filings("esef", ...): the results the query may give
search_esef_filings(dbv, c, limit) == Limited({ f \in dbv.esef_filings : EsefMatchesFilters(dbv, f, c) }, limit)

\* constants.ERR_BAD_SEARCH_PARAM
ERR_BAD_SEARCH_PARAM == "bad-search-parameter"

\* the limit a random query gets when the caller passed limit = None
RandomLimit == 20

\* an int argument, and an argument the caller left out
IntArg(n) == [type |-> "int", val |-> n]
NotGiven == [type |-> "default"]

\* the parameter `limit` in the body: 100 when the caller left it out
LimitParam(limit) == IF limit = NotGiven THEN IntArg(DefaultLimit) ELSE limit

\* the limit a random query gets: the parameter as the caller passed it
given_limit(limit, random, product) == LimitParam(limit)

\* the limit of the query before `if limit:`: a random query on a backend
\* other than mssql gets RandomLimit in place of None
forced_limit(limit, random, product) ==
    IF random /\ product # "mssql" /\ LimitParam(limit) = None
    THEN IntArg(RandomLimit)
    ELSE LimitParam(limit)

\* result_qry.limit(limit) under `if limit:`: None and 0 leave the query
\* without a limit
LimitQuery(rows, lim) == IF lim = None \/ lim.val = 0 THEN { rows } ELSE Limited(rows, lim.val)

\* XbrlIndexDB.search_filings(filing_system, ...): what the call raises, or
\* the limit it applies and the results its query may give
search_filings_call(dbv, filing_system, c, random, limit, product) ==
    IF Lower(filing_system) \notin { Chars("esef"), Chars("sec") }
    THEN [raised |-> "XIDBException", code |-> ERR_BAD_SEARCH_PARAM, results |-> {}, limit |-> None]
    ELSE IF filing_system \notin { "esef", "sec" }
    THEN [raised |-> "KeyError", code |-> "none", results |-> {}, limit |-> None]
    ELSE IF \E d \in { c.publication_date_from, c.publication_date_to } : d # None /\ ~ check_date(d)
    THEN [raised |-> "XIDBException", code |-> ERR_BAD_SEARCH_PARAM, results |-> {}, limit |-> None]
    ELSE LET lim == forced_limit(limit, random, product)
             rows == IF filing_system = "sec"
                     THEN { f \in dbv.filings : MatchesFilters(f, c) }
                     ELSE { f \in dbv.esef_filings : EsefMatchesFilters(dbv, f, c) }
         IN [raised |-> "none", code |-> "none", results |-> LimitQuery(rows, lim), limit |-> lim]

\* XbrlIndexDB.get_changed_and_new_ciks
get_changed_and_new_ciks(dbv) ==
    LET filing_ciks == { f.cik_number : f \in dbv.filings }
        filer_ciks == { r.cik_number : r \in dbv.filers }
        named_ciks == { n.cik_number : n \in dbv.former_names }
        \* cte x and y: the filing with the largest filing_id of a cik
        y(c) == CHOOSE f \in dbv.filings :
                    /\ f.cik_number = c
                    /\ f.filing_id = MaxId({ g.filing_id :
                                               g \in { h \in dbv.filings : h.cik_number = c } })
        \* cte d: the latest date_changed of a cik that has former names
        d(c) == CHOOSE t \in { n.date_changed :
                                 n \in { m \in dbv.former_names : m.cik_number = c } } :
                    \A n \in { m \in dbv.former_names : m.cik_number = c } :
                        n.date_changed <= t
        filer(c) == CHOOSE r \in dbv.filers : r.cik_number = c
        test(c) == /\ Lower(filer(c).conformed_name) # Lower(y(c).company_name)
                   /\ y(c).pub_date > d(c)
    IN [new_ciks |-> filing_ciks \ filer_ciks,
        changed_ciks |->
            { c \in (filing_ciks \cap filer_ciks) \cap named_ciks : test(c) }]

\* the (date_changed, name) pairs update_filer_information keeps of a lookup
UniqueFormerNames(cik, info) ==
    { [cik_number |-> cik, date_changed |-> x.date_changed, name |-> x.name] :
        x \in { z \in SeqRange(info.former_names) : z.date_changed # 0 /\ z.name # "" } }

\* SecFormerNames has the primary key (cik_number, name): a flush of new rows
\* fails when one of them has the key of another new row or of a stored row
FormerNameKeyClash(new_rows, stored_rows) ==
    \E a \in new_rows : \E b \in new_rows \cup stored_rows :
        a # b /\ a.cik_number = b.cik_number /\ a.name = b.name

\* db_utils.update_filer_information once the lookup has answered: the session
\* commits the Filer row and the former names together, or nothing
update_filer_information(dbv, cik, is_existing, info) ==
    LET stored == { r \in dbv.filers : r.cik_number = cik }
        row == [cik_number |-> cik, conformed_name |-> info.conformed_name]
        existing_former_names == { n \in dbv.former_names : n.cik_number = cik }
        former_names_to_append == UniqueFormerNames(cik, info) \ existing_former_names
    IN IF is_existing
       THEN IF stored = {}
            THEN [db |-> dbv, ok |-> FALSE, err |-> "AttributeError"]
            ELSE IF FormerNameKeyClash(former_names_to_append, existing_former_names)
            THEN [db |-> dbv, ok |-> FALSE, err |-> "IntegrityError"]
            ELSE [db |-> [dbv EXCEPT
                            !.filers = (@ \ stored) \cup { row },
                            !.former_names = @ \cup former_names_to_append],
                  ok |-> TRUE, err |-> "none"]
       ELSE IF stored # {} \/ FormerNameKeyClash(UniqueFormerNames(cik, info), existing_former_names)
            THEN [db |-> dbv, ok |-> FALSE, err |-> "IntegrityError"]
            ELSE [db |-> [dbv EXCEPT
                            !.filers = @ \cup { row },
                            !.former_names = @ \cup UniqueFormerNames(cik, info)],
                  ok |-> TRUE, err |-> "none"]

\* XbrlIndexDB.get_esef_new_filings_new_entities
\* a comparison that returns every filing key of the catalog as new
get_esef_all_filings_new_entities(dbv, esef_index) ==
    LET index_entities == { e.lei : e \in SeqRange(esef_index) }
        index_filings == UNION { SeqRange(e.filings) : e \in SeqRange(esef_index) }
    IN [new_esef_entities |-> index_entities \ { r.entity_lei : r \in dbv.esef_entities },
        new_esef_filings |-> index_filings]

\* XbrlIndexDB.get_esef_new_filings_new_entities
get_esef_new_filings_new_entities(dbv, esef_index) ==
    LET index_entities == { e.lei : e \in SeqRange(esef_index) }
        index_filings == UNION { SeqRange(e.filings) : e \in SeqRange(esef_index) }
    IN [new_esef_entities |-> index_entities \ { r.entity_lei : r \in dbv.esef_entities },
        new_esef_filings |-> index_filings \ { r.filing_key : r \in dbv.esef_filings }]

\* the query langs_ranked: the inferred languages of a filing with rank 1 by
\* facts_in_lang (rank() gives equal counts the same rank)
langs_ranked(f) == { l \in f.langs : \A m \in f.langs : m.facts_in_lang <= l.facts_in_lang }

\* the query `filings`: loadable filings not marked as amended, outer joined
\* with langs_ranked; None is the NULL of a filing without an inferred language
filings_cte(rows) ==
    LET open == { f \in rows : f.is_loadable /\ ~f.is_amended_hint }
    IN { [filing_root |-> f.filing_root, report_package |-> f.report_package,
          lang |-> l, filing_id |-> f.filing_id, filing_number |-> f.filing_number] :
            f \in { g \in open : g.langs = {} }, l \in { None } }
       \cup UNION { { [filing_root |-> f.filing_root, report_package |-> f.report_package,
                       lang |-> l.lang, filing_id |-> f.filing_id,
                       filing_number |-> f.filing_number] : l \in langs_ranked(f) } :
                      f \in open }

\* the comparison a = b of SQL: not true when one side is NULL
SqlEq(a, b) == a # None /\ b # None /\ a = b

\* the query detect_last: the rows of `filings` joined with their group of
\* `grouped` (filing_root, report_package, lang), the groups with xcount > 1
detect_last(rows) ==
    LET fs == filings_cte(rows)
        xcount(g) == Cardinality({ f \in fs : /\ f.filing_root = g.filing_root
                                               /\ f.report_package = g.report_package
                                               /\ f.lang = g.lang })
    IN { f \in fs :
           \E g \in fs : /\ SqlEq(g.filing_root, f.filing_root)
                         /\ SqlEq(g.report_package, f.report_package)
                         /\ SqlEq(g.lang, f.lang)
                         /\ xcount(g) > 1 }

\* the column is_not_max: max(filing_number) over the rows of detect_last of
\* the same filing_root and lang is not the row's filing_number
is_not_max(dl, f) ==
    \E g \in dl : /\ g.filing_root = f.filing_root /\ g.lang = f.lang
                  /\ g.filing_number > f.filing_number

\* esef_detect_amended_and_multi_langs: the filing ids to tag
esef_detect_amended_and_multi_langs(rows) ==
    LET dl == detect_last(rows)
        lang_count(root) ==
            Cardinality(UNION { { << f.filing_id, l.lang >> : l \in f.langs } :
                                  f \in { g \in rows : g.filing_root = root
                                                       /\ ~g.other_langs_hint } })
    IN [amended_filings |-> { f.filing_id : f \in { g \in dl : is_not_max(dl, g) } },
        multi_langs |-> { f.filing_id : f \in { g \in rows : lang_count(g.filing_root) > 1 } }]

\* tag_amended_and_multi_langs on the rows of esef_filing
tag_amended_and_multi_langs(rows) ==
    LET found == esef_detect_amended_and_multi_langs(rows)
    IN { [f EXCEPT !.is_amended_hint = @ \/ f.filing_id \in found.amended_filings,
                   !.other_langs_hint = @ \/ f.filing_id \in found.multi_langs] :
           f \in rows }

(***************************************************************************)
(* Initial state: an initialised, empty database; every process idle.      *)
(***************************************************************************)
\* sqlite (the default product) lets one connection write at a time: while a
\* connection holds uncommitted statements the writes of the others wait
WriteLocked(p) ==
    \E q \in Procs \ {p} : txn[q].stage = "open" /\ txn[q].pending # << >>

\* no lookup of a cik yet: lookups counts the calls of update_filer_information
\* for a cik since _filers_insert_update started its loop
NoLookups == [c \in { "c1", "c2" } |-> 0]

NoWork ==
    [new_ciks |-> {}, changed_ciks |-> {}, ciks |-> {}, failed_ciks |-> {},
     retries |-> 0, lookups |-> NoLookups,
     new_esef_filings |-> {}, new_esef_entities |-> {},
     entity |-> 1, filing |-> 1, lei_data |-> << >>]

NoDiff == [existing_feeds_dict |-> << >>, feeds |-> << >>, out |-> << >>, done |-> FALSE]
NoFilter == [all_feeds |-> << >>, done |-> FALSE]
NoPrep == [done |-> FALSE]
NoSearch == [done |-> FALSE]
NoCall == [fn |-> "none", done |-> FALSE]

\* the store after create_all: every table empty
EmptyStore ==
    [feeds |-> {}, filings |-> {}, files |-> {}, filers |-> {},
     former_names |-> {}, esef_filings |-> {}, esef_entities |-> {}]

\* the tracker table and the processes before the first operation
InitProcs ==
    /\ trackers = << >>
    /\ lastUpdate = [t \in Tasks |-> 0]
    /\ pc = [p \in Procs |-> "idle"]
    /\ op = [p \in Procs |-> "none"]
    /\ cur = [p \in Procs |-> 0]
    /\ existing = [p \in Procs |-> 0]
    /\ ok = [p \in Procs |-> TRUE]
    /\ incl = [p \in Procs |-> FALSE]
    /\ todo = [p \in Procs |-> << >>]
    /\ idx = [p \in Procs |-> 0]
    /\ txn = [p \in Procs |-> NoTxn]
    /\ work = [p \in Procs |-> NoWork]
    /\ closeCalls = [p \in Procs |-> 0]
    /\ result = [p \in Procs |-> "none"]
    /\ closedSince = [p \in Procs |-> {}]

\* the store and the processes before the first operation
InitStore == InitProcs /\ db = EmptyStore

\* processes racing for the store; the remote side lists one monthly feed
Init ==
    /\ InitStore
    /\ faults = MaxFaults
    /\ remote = Remote(<< ListingRow(202201, 1, TRUE) >>,
                       [build |-> 202202, items |-> << Item("a1", 4, 4, "c1", "Acme Inc") >>])
    /\ diffCall = NoDiff
    /\ filterCall = NoFilter
    /\ prepCall = NoPrep
    /\ searchCall = NoSearch
    /\ libCall = NoCall

\* what an action that is not about these leaves alone
feedLocals == << incl, todo, idx, txn, closeCalls >>
outside == << remote, diffCall, filterCall, prepCall, searchCall, libCall >>

(***************************************************************************)
(* make_tracker.                                                           *)
(***************************************************************************)
TaskOf(o) ==
    IF o = "update_feeds" THEN DB_UPDATE_FEEDS
    ELSE IF o = "detect_and_tag_duplicates" THEN DB_PROCESS_DUPLICATES
    ELSE IF o = "insert_new_filers" THEN DB_INSERT_NEW_FILERS
    ELSE IF o = "update_existing_filers" THEN DB_UPDATE_EXISTING_FILERS
    ELSE IF o = "insert_esef_new_filings" THEN DB_UPDATE_ESEF_FILINGS
    ELSE DB_UPDATE_ESEF_ENTITIES

\* tracker rows in the table or about to be added
RowsInFlight == Len(trackers) + Cardinality({ q \in Procs : pc[q] = "mt_insert" })

\* callers that go on whatever make_tracker answered
AfterTrackerUnchecked(o, okv, w) ==
    IF o = "update_feeds" THEN "uf_list"
    ELSE IF o = "detect_and_tag_duplicates" THEN "dt_check"
    ELSE IF o \in { "insert_new_filers", "update_existing_filers" } THEN "fl_total"
    ELSE IF o = "insert_esef_new_filings" THEN "ef_f_total"
    ELSE "ef_e_total"

\* where the caller of make_tracker goes with its answer; w is its work record
AfterTracker(o, okv, w) ==
    IF o = "update_feeds" THEN (IF okv THEN "uf_list" ELSE "idle")
    ELSE IF o = "detect_and_tag_duplicates" THEN (IF okv THEN "dt_check" ELSE "idle")
    ELSE IF o \in { "insert_new_filers", "update_existing_filers" } THEN "fl_total"
    ELSE IF o = "insert_esef_new_filings"
    THEN (IF okv THEN "ef_f_total"
          ELSE IF w.new_esef_entities # {} THEN "ef_entities" ELSE "idle")
    ELSE (IF okv THEN "ef_e_total" ELSE "idle")

\* how the caller of make_tracker ends when it does not go on
EndAfterTracker(o, okv, w) ==
    IF AfterTracker(o, okv, w) # "idle" THEN "none"
    ELSE IF o = "update_feeds" THEN ERR_NO_TRACKER
    ELSE "returned"

\* make_tracker up to its query, on an instance that holds no tracker
MakeTrackerQuery(p, o) ==
    /\ cur[p] = 0
    /\ RowsInFlight < MaxTrackers
    /\ op' = [op EXCEPT ![p] = o]
    /\ existing' = [existing EXCEPT ![p] = OpenTrackerQuery(trackers, TaskOf(o))]
    /\ result' = [result EXCEPT ![p] = "none"]
    /\ pc' = [pc EXCEPT ![p] = "mt_insert"]

\* make_tracker on an instance that still holds a tracker: it raises, and the
\* callers that do not catch it end
MakeTrackerRaises(p, o) ==
    /\ cur[p] # 0
    /\ op' = [op EXCEPT ![p] = o]
    /\ result' = [result EXCEPT ![p] = ERR_EXISTING_TASK_IN_PROGRESS]
    /\ pc' = [pc EXCEPT ![p] = "idle"]
    /\ UNCHANGED existing

\* tasks whose tracker a process closed, after p's make_tracker added its row
ClosedSinceAfterInsert(p, task, opened) ==
    [q \in Procs |-> IF q = p \/ opened THEN closedSince[q] \ { task }
                     ELSE closedSince[q]]

\* make_tracker from the new row to its return, and the caller's test of it
MakeTrackerInsert(p) ==
    /\ pc[p] = "mt_insert"
    /\ ~WriteLocked(p)
    /\ trackers' = Append(trackers, TrackerRow(TaskOf(op[p]), existing[p]))
    /\ cur' = [cur EXCEPT ![p] = Len(trackers) + 1]
    /\ ok' = [ok EXCEPT ![p] = existing[p] = 0]
    /\ pc' = [pc EXCEPT ![p] = AfterTracker(op[p], existing[p] = 0, work[p])]
    /\ result' = [result EXCEPT ![p] = EndAfterTracker(op[p], existing[p] = 0, work[p])]
    /\ work' = [work EXCEPT ![p] = IF AfterTracker(op[p], existing[p] = 0, @) = "idle"
                                   THEN NoWork ELSE @]
    /\ existing' = [existing EXCEPT ![p] = 0]
    /\ closedSince' = ClosedSinceAfterInsert(p, TaskOf(op[p]), existing[p] = 0)
    /\ UNCHANGED << faults, lastUpdate, db, op, feedLocals, outside >>

(***************************************************************************)
(* _close_tracker and do_exit_cleanup.                                     *)
(***************************************************************************)
\* _close_tracker asserts that the instance holds a tracker
CloseRaises(curv) == curv = 0

\* _close_tracker of p's current tracker; rows is the tracker table as the
\* step has changed it so far
CloseTracker(p, rows, is_completed, is_interrupted, note) ==
    /\ trackers' = [rows EXCEPT ![cur[p]] = ClosedRow(@, is_completed, is_interrupted, note)]
    /\ lastUpdate' = [lastUpdate EXCEPT ![rows[cur[p]].task_name] = @ + 1]
    /\ cur' = [cur EXCEPT ![p] = 0]
    /\ closedSince' = [closedSince EXCEPT ![p] =
                          IF rows[cur[p]].is_closed THEN @
                          ELSE @ \cup { rows[cur[p]].task_name }]

\* XbrlIndexDB.close() between two operations: do_exit_cleanup(True, False)
\* closes the tracker the instance still holds
Close(p) ==
    /\ pc[p] = "idle"
    /\ cur[p] # 0
    /\ ~WriteLocked(p)
    /\ CloseTracker(p, trackers, TRUE, FALSE, None)
    /\ result' = [result EXCEPT ![p] = "closed"]
    /\ UNCHANGED << faults, db, pc, op, existing, ok, work, feedLocals, outside >>

(***************************************************************************)
(* update_feeds.                                                           *)
(***************************************************************************)
DateArgs == { None, Date(202201, 15), Date(202202, 15) }

\* items of the run: the feeds of the list, and the latest feed when asked for
RunItems(p) == Len(todo[p]) + (IF incl[p] /\ ~is_test THEN 1 ELSE 0)

\* a loop that takes the newest feed of the list first
CurrentFeedNewestFirst(p) ==
    IF idx[p] < Len(todo[p]) THEN todo[p][Len(todo[p]) - idx[p]] ELSE latest_feed_dict

\* the feed the loop of update_feeds is at
CurrentFeed(p) == IF idx[p] < Len(todo[p]) THEN todo[p][idx[p] + 1] ELSE latest_feed_dict

UpdateFeedsCall(p) ==
    /\ pc[p] = "idle"
    /\ \/ MakeTrackerQuery(p, "update_feeds")
       \/ MakeTrackerRaises(p, "update_feeds")
    /\ closeCalls' = [closeCalls EXCEPT ![p] = 0]
    /\ UNCHANGED << faults, trackers, lastUpdate, db, cur, ok, incl, todo, idx, txn, work,
                    closedSince, outside >>

\* the except block of update_feeds, and the statement that follows the try
UpdateFeedsExcept(p, err) ==
    /\ ~WriteLocked(p)
    /\ CloseTracker(p, trackers, FALSE, TRUE, truncate_string(ErrText(err)))
    /\ closeCalls' = [closeCalls EXCEPT ![p] = 2]
    /\ result' = [result EXCEPT ![p] =
                    IF CloseRaises(0) THEN "AssertionError" ELSE "returned"]
    /\ pc' = [pc EXCEPT ![p] = "idle"]
    /\ todo' = [todo EXCEPT ![p] = << >>]
    /\ idx' = [idx EXCEPT ![p] = 0]
    /\ incl' = [incl EXCEPT ![p] = FALSE]
    /\ UNCHANGED << db, op, existing, ok, txn, work, outside >>

\* get_new_and_modified_monthly_feeds and the total_items commit
GetFeeds(p) ==
    /\ pc[p] = "uf_list"
    /\ ~WriteLocked(p)
    /\ \E from_date \in DateArgs, to_date \in DateArgs, include_latest \in BOOLEAN :
          IF BadDateRange(from_date, to_date)
          THEN UpdateFeedsExcept(p, ERR_BAD_DATE_RANGE) /\ UNCHANGED faults
          ELSE LET feeds == prep_monthly_feeds_to_process(
                                get_existing_feeds(db.feeds), remote.listing,
                                from_date, to_date, include_latest)
               IN /\ todo' = [todo EXCEPT ![p] = feeds]
                  /\ idx' = [idx EXCEPT ![p] = 0]
                  /\ incl' = [incl EXCEPT ![p] = include_latest]
                  /\ trackers' = [trackers EXCEPT ![cur[p]].total_items =
                                     Len(feeds) + (IF include_latest THEN 1 ELSE 0)]
                  /\ pc' = [pc EXCEPT ![p] = "uf_loop"]
                  /\ UNCHANGED << faults, lastUpdate, db, op, cur, existing, ok, txn, work,
                                  closeCalls, result, closedSince, outside >>

\* a store error inside the try block, outside insert_feed_data
GetFeedsRaises(p) ==
    /\ pc[p] = "uf_list"
    /\ faults > 0
    /\ faults' = faults - 1
    /\ UpdateFeedsExcept(p, "OperationalError")

\* insert_feed_data has returned: _advance_tracker_counts and the next item
FeedDone(p, dbv, success, err) ==
    /\ ~WriteLocked(p)
    /\ db' = dbv
    /\ trackers' = [trackers EXCEPT ![cur[p]] =
                       AdvancedRow(@, 1, success,
                                   IF success THEN None ELSE NoteOfStats(err))]
    /\ idx' = [idx EXCEPT ![p] = @ + 1]
    /\ txn' = [txn EXCEPT ![p] = NoTxn]
    /\ pc' = [pc EXCEPT ![p] = "uf_loop"]
    /\ UNCHANGED << lastUpdate, op, cur, existing, ok, incl, todo, work, closeCalls,
                    result, closedSince, outside >>

\* the document a feed's link serves
DocOf(feed) ==
    IF feed.link = LATEST_FEEDS_URL THEN remote.latest
    ELSE [build |-> 0, items |-> MonthlyDoc(feed.link.ym, feed.last_modified_date)]

\* insert_feed_data: the document loads, the rows are prepared
LoadAndPrepFeed(p) ==
    /\ pc[p] = "uf_loop"
    /\ idx[p] < RunItems(p)
    /\ LET feed == CurrentFeed(p)
           prep == load_and_prep_feed(db, feed, DocOf(feed))
           rows == extract_filings_data_from_rss_items(
                       prep.feed_data.feed_id, prep.initial_filing_id,
                       prep.new_or_modified_filings)
       IN txn' = [txn EXCEPT ![p] =
                     [stage |-> "open", feed_data |-> prep.feed_data,
                      filings_list |-> rows.filings_list,
                      files_list |-> rows.files_list,
                      is_modified |-> prep.is_modified,
                      pending |-> << >>]]
    /\ pc' = [pc EXCEPT ![p] = "ifd_feed"]
    /\ UNCHANGED << faults, trackers, lastUpdate, db, op, cur, existing, ok, incl, todo,
                    idx, work, closeCalls, result, closedSince, outside >>

\* insert_feed_data: the document does not load within the time allowed
LoadFeedFails(p) ==
    /\ pc[p] = "uf_loop"
    /\ idx[p] < RunItems(p)
    /\ faults > 0
    /\ faults' = faults - 1
    /\ FeedDone(p, db, FALSE, "AssertionError")

\* one statement of insert_feed_into_db has run on conn1
Executed(p, c, next) ==
    IF c.err # "none"
    THEN FeedDone(p, c.db, FALSE, c.err) /\ UNCHANGED faults
    ELSE /\ ~WriteLocked(p)
         /\ db' = c.db
         /\ txn' = [txn EXCEPT ![p].pending = c.pending]
         /\ pc' = [pc EXCEPT ![p] = next]
         /\ UNCHANGED << faults, trackers, lastUpdate, op, cur, existing, ok, incl, todo,
                         idx, work, closeCalls, result, closedSince, outside >>

\* insert_feed_into_db: the Feed row, updated or inserted, not for the latest feed
InsertFeedRow(p) ==
    /\ pc[p] = "ifd_feed"
    /\ LET t == txn[p]
           conn == Conn(db, t.pending)
       IN Executed(p,
             IF t.feed_data.feed_link = LATEST_FEEDS_URL THEN conn
             ELSE IF t.is_modified
                  THEN Execute(conn, Stmt("update", "feeds", { t.feed_data }))
                  ELSE insert_or_delete_rows(conn, "feeds", { t.feed_data }, FALSE),
             "ifd_filings")

\* insert_feed_into_db: the Filing rows
InsertFilingRows(p) ==
    /\ pc[p] = "ifd_filings"
    /\ LET t == txn[p]
           conn == Conn(db, t.pending)
       IN Executed(p,
             IF Len(t.filings_list) > 0
             THEN insert_or_delete_rows(conn, "filings", SeqRange(t.filings_list), FALSE)
             ELSE conn,
             "ifd_files")

\* insert_feed_into_db: the File rows
InsertFileRows(p) ==
    /\ pc[p] = "ifd_files"
    /\ LET t == txn[p]
           conn == Conn(db, t.pending)
       IN Executed(p,
             IF Len(t.files_list) > 0
             THEN insert_or_delete_rows(conn, "files", SeqRange(t.files_list), FALSE)
             ELSE conn,
             "ifd_commit")

\* insert_feed_into_db: conn1.commit()
CommitFeed(p) ==
    /\ pc[p] = "ifd_commit"
    /\ FeedDone(p, Commit(Conn(db, txn[p].pending)).db, TRUE, "none")
    /\ UNCHANGED faults

\* insert_feed_into_db: a statement or the commit raises (the store is locked,
\* the connection is lost): conn1 is closed without commit
InsertFeedRaises(p) ==
    /\ pc[p] \in { "ifd_feed", "ifd_filings", "ifd_files", "ifd_commit" }
    /\ faults > 0
    /\ faults' = faults - 1
    /\ FeedDone(p, db, FALSE, "OperationalError")

\* update_feeds after its last item: the log, then _close_tracker()
UpdateFeedsClose(p) ==
    /\ pc[p] = "uf_loop"
    /\ ~WriteLocked(p)
    /\ idx[p] = RunItems(p)
    /\ CloseTracker(p, trackers, TRUE, FALSE, None)
    /\ closeCalls' = [closeCalls EXCEPT ![p] = @ + 1]
    /\ result' = [result EXCEPT ![p] = "returned"]
    /\ pc' = [pc EXCEPT ![p] = "idle"]
    /\ todo' = [todo EXCEPT ![p] = << >>]
    /\ idx' = [idx EXCEPT ![p] = 0]
    /\ incl' = [incl EXCEPT ![p] = FALSE]
    /\ UNCHANGED << faults, db, op, existing, ok, txn, work, outside >>

UpdateFeedsStep(p) ==
    \/ UpdateFeedsCall(p)
    \/ GetFeeds(p)
    \/ GetFeedsRaises(p)
    \/ LoadAndPrepFeed(p)
    \/ LoadFeedFails(p)
    \/ InsertFeedRow(p)
    \/ InsertFilingRows(p)
    \/ InsertFileRows(p)
    \/ CommitFeed(p)
    \/ InsertFeedRaises(p)
    \/ UpdateFeedsClose(p)

(***************************************************************************)
(* detect_and_tag_duplicates.                                              *)
(***************************************************************************)
DetectCall(p) ==
    /\ pc[p] = "idle"
    /\ \/ MakeTrackerQuery(p, "detect_and_tag_duplicates")
       \/ MakeTrackerRaises(p, "detect_and_tag_duplicates")
    /\ UNCHANGED << faults, trackers, lastUpdate, db, cur, ok, work, closedSince,
                    feedLocals, outside >>

\* the count of the duplicates view, then total_items or, with none, the close
DetectCheck(p) ==
    /\ pc[p] = "dt_check"
    /\ ~WriteLocked(p)
    /\ LET existing_dups == Cardinality(ViewDuplicateFiling(db.filings))
       IN IF existing_dups > 0
          THEN /\ trackers' = [trackers EXCEPT ![cur[p]].total_items = existing_dups]
               /\ pc' = [pc EXCEPT ![p] = "dt_tag"]
               /\ UNCHANGED << lastUpdate, cur, closedSince, result >>
          ELSE /\ CloseTracker(p, trackers, TRUE, FALSE, None)
               /\ pc' = [pc EXCEPT ![p] = "idle"]
               /\ result' = [result EXCEPT ![p] = "returned"]
    /\ UNCHANGED << faults, db, op, existing, ok, work, feedLocals, outside >>

\* the query of the duplicates view raises: nothing catches it
DetectCheckRaises(p) ==
    /\ pc[p] = "dt_check"
    /\ faults > 0
    /\ faults' = faults - 1
    /\ pc' = [pc EXCEPT ![p] = "idle"]
    /\ result' = [result EXCEPT ![p] = "OperationalError"]
    /\ UNCHANGED << trackers, lastUpdate, db, op, cur, existing, ok, work, closedSince,
                    feedLocals, outside >>

\* the two updates and their commit, _advance_tracker_counts, _close_tracker
DetectTag(p) ==
    /\ pc[p] = "dt_tag"
    /\ ~WriteLocked(p)
    /\ LET duplicates == ViewDuplicateFiling(db.filings)
           filings_rows == Cardinality(duplicates)
       IN /\ db' = TagDuplicates(db, duplicates)
          /\ CloseTracker(p, [trackers EXCEPT ![cur[p]] =
                                 AdvancedRow(@, filings_rows, TRUE, None)],
                          TRUE, FALSE, None)
    /\ pc' = [pc EXCEPT ![p] = "idle"]
    /\ result' = [result EXCEPT ![p] = "returned"]
    /\ UNCHANGED << faults, op, existing, ok, work, feedLocals, outside >>

\* an update or the commit raises inside the try
DetectTagRaises(p) ==
    /\ pc[p] = "dt_tag"
    /\ ~WriteLocked(p)
    /\ faults > 0
    /\ faults' = faults - 1
    /\ CloseTracker(p, [trackers EXCEPT ![cur[p]] =
                           AdvancedRow(@, 0, FALSE,
                                       truncate_string(ErrText("OperationalError")))],
                    TRUE, FALSE, None)
    /\ pc' = [pc EXCEPT ![p] = "idle"]
    /\ result' = [result EXCEPT ![p] = "returned"]
    /\ UNCHANGED << db, op, existing, ok, work, feedLocals, outside >>

DetectStep(p) ==
    \/ DetectCall(p)
    \/ DetectCheck(p)
    \/ DetectCheckRaises(p)
    \/ DetectTag(p)
    \/ DetectTagRaises(p)

(***************************************************************************)
(* filers_quick_update, _filers_insert_update and _filer_action_loop.      *)
(***************************************************************************)
\* _filer_action_loop's default retry budget
Retries == 3

\* "cik:<cik>|" + str(err) of update_filer_information
FilerErrText(err) == Str(err, ErrText(err).len + 15)

\* filers_quick_update up to the first make_tracker of _filers_insert_update
FilersQuickUpdate(p) ==
    /\ pc[p] = "idle"
    /\ RowsInFlight < MaxTrackers
    /\ \E only_new \in BOOLEAN :
          LET found == get_changed_and_new_ciks(db)
              changed_ciks == IF only_new THEN {} ELSE found.changed_ciks
          IN IF found.new_ciks = {} /\ changed_ciks = {}
             THEN /\ result' = [result EXCEPT ![p] = "returned"]
                  /\ UNCHANGED << pc, work >>
             ELSE /\ result' = [result EXCEPT ![p] = "none"]
                  /\ pc' = [pc EXCEPT ![p] =
                              IF found.new_ciks # {} THEN "fl_new" ELSE "fl_existing"]
                  /\ work' = [work EXCEPT ![p] =
                                [NoWork EXCEPT !.new_ciks = found.new_ciks,
                                               !.changed_ciks = changed_ciks]]
    /\ UNCHANGED << faults, trackers, lastUpdate, db, op, cur, existing, ok, closedSince,
                    feedLocals, outside >>

\* the task _filers_insert_update is about to start
FilerTask(p) == IF pc[p] = "fl_new" THEN "insert_new_filers" ELSE "update_existing_filers"

\* _filers_insert_update calls make_tracker; when that raises, filers_quick_update
\* catches it and do_exit_cleanup closes the tracker the instance still holds
FilersMakeTracker(p) ==
    /\ pc[p] \in { "fl_new", "fl_existing" }
    /\ \/ /\ MakeTrackerQuery(p, FilerTask(p))
          /\ UNCHANGED << trackers, lastUpdate, cur, work, closedSince >>
       \/ /\ cur[p] # 0
          /\ ~WriteLocked(p)
          /\ CloseTracker(p, trackers, FALSE, TRUE,
                          truncate_string(ErrText(ERR_EXISTING_TASK_IN_PROGRESS)))
          /\ op' = [op EXCEPT ![p] = FilerTask(p)]
          /\ pc' = [pc EXCEPT ![p] = "idle"]
          /\ result' = [result EXCEPT ![p] = "returned"]
          /\ work' = [work EXCEPT ![p] = NoWork]
          /\ UNCHANGED existing
    /\ UNCHANGED << faults, db, ok, feedLocals, outside >>

\* total_items and its commit, then the test of make_tracker's answer: the
\* raise of ERR_NO_TRACKER ends in do_exit_cleanup
FilersTotal(p) ==
    /\ pc[p] = "fl_total"
    /\ ~WriteLocked(p)
    /\ LET ciks == IF op[p] = "insert_new_filers" THEN work[p].new_ciks
                   ELSE work[p].changed_ciks
           rows == [trackers EXCEPT ![cur[p]].total_items = Cardinality(ciks)]
       IN IF ok[p]
          THEN /\ trackers' = rows
               /\ work' = [work EXCEPT ![p].ciks = ciks, ![p].failed_ciks = {},
                                       ![p].retries = Retries,
                                       ![p].lookups = NoLookups]
               /\ pc' = [pc EXCEPT ![p] = "fl_loop"]
               /\ UNCHANGED << lastUpdate, cur, closedSince, result >>
          ELSE /\ CloseTracker(p, rows, FALSE, TRUE,
                               truncate_string(ErrText(ERR_NO_TRACKER)))
               /\ work' = [work EXCEPT ![p] = NoWork]
               /\ pc' = [pc EXCEPT ![p] = "idle"]
               /\ result' = [result EXCEPT ![p] = "returned"]
    /\ UNCHANGED << faults, db, op, existing, ok, feedLocals, outside >>

\* one cik of _filer_action_loop has been attempted
FilerAttempted(p, cik, stats) ==
    /\ ~WriteLocked(p)
    /\ db' = stats.db
    /\ trackers' = [trackers EXCEPT ![cur[p]] =
                       AdvancedRow(@, 1, stats.ok,
                                   IF stats.ok THEN None ELSE FilerErrText(stats.err))]
    /\ work' = [work EXCEPT ![p].ciks = @ \ { cik },
                            ![p].failed_ciks = IF stats.ok THEN @ ELSE @ \cup { cik },
                            ![p].lookups[cik] = @ + 1]
    /\ UNCHANGED << lastUpdate, pc, op, cur, existing, ok, result, closedSince,
                    feedLocals, outside >>

\* _filer_action_loop: the lookup answers, update_filer_information writes
FilerAction(p) ==
    /\ pc[p] = "fl_loop"
    /\ \E cik \in work[p].ciks :
          FilerAttempted(p, cik,
              update_filer_information(db, cik, op[p] = "update_existing_filers",
                                       FilerInfo(cik)))
    /\ UNCHANGED faults

\* _filer_action_loop: the lookup of the cik fails
FilerLookupFails(p) ==
    /\ pc[p] = "fl_loop"
    /\ faults > 0
    /\ faults' = faults - 1
    /\ \E cik \in work[p].ciks :
          FilerAttempted(p, cik, [db |-> db, ok |-> FALSE, err |-> "URLError"])

\* a loop that calls itself whenever a cik failed
RetryFailedAlways(failed_ciks, retries) == failed_ciks # {}

\* _filer_action_loop's test before it calls itself with the failed ciks
RetryFailed(failed_ciks, retries) == failed_ciks # {} /\ retries > 0

\* _filer_action_loop after a round: the retry of the failed ciks, or the
\* return and _filers_insert_update's _close_tracker and next task
FilersRoundEnd(p) ==
    /\ pc[p] = "fl_loop"
    /\ work[p].ciks = {}
    /\ ~WriteLocked(p)
    /\ IF RetryFailed(work[p].failed_ciks, work[p].retries)
       THEN /\ trackers' = [trackers EXCEPT ![cur[p]].total_items =
                               @ + Cardinality(work[p].failed_ciks)]
            /\ work' = [work EXCEPT ![p].ciks = work[p].failed_ciks,
                                    ![p].failed_ciks = {},
                                    ![p].retries = @ - 1]
            /\ UNCHANGED << lastUpdate, pc, cur, result, closedSince >>
       ELSE /\ CloseTracker(p, trackers, TRUE, FALSE, None)
            /\ IF op[p] = "insert_new_filers" /\ work[p].changed_ciks # {}
               THEN /\ pc' = [pc EXCEPT ![p] = "fl_existing"]
                    /\ work' = [work EXCEPT ![p].failed_ciks = {}, ![p].retries = 0]
                    /\ UNCHANGED result
               ELSE /\ pc' = [pc EXCEPT ![p] = "idle"]
                    /\ work' = [work EXCEPT ![p] = NoWork]
                    /\ result' = [result EXCEPT ![p] = "returned"]
    /\ UNCHANGED << faults, db, op, existing, ok, feedLocals, outside >>

FilersStep(p) ==
    \/ FilersQuickUpdate(p)
    \/ FilersMakeTracker(p)
    \/ FilersTotal(p)
    \/ FilerAction(p)
    \/ FilerLookupFails(p)
    \/ FilersRoundEnd(p)

(***************************************************************************)
(* update_esef_default: insert_esef_new_filings, insert_esef_new_entities. *)
(***************************************************************************)
RECURSIVE SetToSeq(_)
SetToSeq(S) ==
    IF S = {} THEN << >>
    ELSE LET x == CHOOSE y \in S : TRUE IN << x >> \o SetToSeq(S \ { x })

\* update_esef_default up to the first of the two inserting operations
UpdateEsefDefault(p) ==
    /\ pc[p] = "idle"
    /\ RowsInFlight < MaxTrackers
    /\ LET found == get_esef_new_filings_new_entities(db, remote.esef_index)
       IN IF found.new_esef_filings = {} /\ found.new_esef_entities = {}
          THEN /\ result' = [result EXCEPT ![p] = "returned"]
               /\ UNCHANGED << pc, work >>
          ELSE /\ result' = [result EXCEPT ![p] = "none"]
               /\ pc' = [pc EXCEPT ![p] =
                           IF found.new_esef_filings # {} THEN "ef_filings"
                           ELSE "ef_entities"]
               /\ work' = [work EXCEPT ![p] =
                             [NoWork EXCEPT
                                !.new_esef_filings = found.new_esef_filings,
                                !.new_esef_entities = found.new_esef_entities]]
    /\ UNCHANGED << faults, trackers, lastUpdate, db, op, cur, existing, ok, closedSince,
                    feedLocals, outside >>

EsefTask(p) ==
    IF pc[p] = "ef_filings" THEN "insert_esef_new_filings" ELSE "insert_esef_new_entities"

\* make_tracker of insert_esef_new_filings or insert_esef_new_entities
EsefMakeTracker(p) ==
    /\ pc[p] \in { "ef_filings", "ef_entities" }
    /\ \/ MakeTrackerQuery(p, EsefTask(p)) /\ UNCHANGED work
       \/ MakeTrackerRaises(p, EsefTask(p)) /\ work' = [work EXCEPT ![p] = NoWork]
    /\ UNCHANGED << faults, trackers, lastUpdate, db, cur, ok, closedSince, feedLocals,
                    outside >>

\* total_items of either operation and its commit
EsefTotal(p) ==
    /\ pc[p] \in { "ef_f_total", "ef_e_total" }
    /\ ~WriteLocked(p)
    /\ trackers' = [trackers EXCEPT ![cur[p]].total_items =
                       IF pc[p] = "ef_f_total"
                       THEN Cardinality(work[p].new_esef_filings)
                       ELSE Cardinality(work[p].new_esef_entities)]
    /\ work' = [work EXCEPT ![p].entity = 1, ![p].filing = 1]
    /\ pc' = [pc EXCEPT ![p] = IF pc[p] = "ef_f_total" THEN "ef_f_loop" ELSE "ef_e_fetch"]
    /\ UNCHANGED << faults, lastUpdate, db, op, cur, existing, ok, result, closedSince,
                    feedLocals, outside >>

\* the filing key the loops of insert_esef_new_filings stand at
AtFiling(p) ==
    /\ work[p].entity <= Len(remote.esef_index)
    /\ work[p].filing <= Len(remote.esef_index[work[p].entity].filings)
FilingKeyAt(p) == remote.esef_index[work[p].entity].filings[work[p].filing]

\* an attempt of _insert_esef_filing has ended: on success the inner loop goes
\* on, on failure the handler around the entity's filings takes over
EsefFilingAttempted(p, dbv, success, err) ==
    /\ ~WriteLocked(p)
    /\ db' = dbv
    /\ trackers' = [trackers EXCEPT ![cur[p]] =
                       AdvancedRow(@, 1, success,
                                   IF success THEN None
                                   ELSE truncate_string(ErrText(err)))]
    /\ work' = [work EXCEPT
                  ![p].entity = IF success THEN @ ELSE @ + 1,
                  ![p].filing = IF success THEN @ + 1 ELSE 1]
    /\ UNCHANGED << lastUpdate, pc, op, cur, existing, ok, result, closedSince,
                    feedLocals, outside >>

\* EsefFiling.filing_id: the autoincrement primary key, the only key of the
\* table (filing_key is a plain text column)
NextEsefFilingId(dbv) ==
    LET ids == { r.filing_id : r \in dbv.esef_filings }
    IN IF ids = {} THEN 1 ELSE 1 + (CHOOSE m \in ids : \A n \in ids : n <= m)

\* the loops of insert_esef_new_filings: the next entity, a key that is not
\* new, or _insert_esef_filing of a new key
EsefFilingStep(p) ==
    /\ pc[p] = "ef_f_loop"
    /\ work[p].entity <= Len(remote.esef_index)
    /\ IF ~AtFiling(p)
       THEN /\ work' = [work EXCEPT ![p].entity = @ + 1, ![p].filing = 1]
            /\ UNCHANGED << trackers, lastUpdate, db, pc, op, cur, existing, ok, result,
                            closedSince, feedLocals, outside >>
       ELSE IF FilingKeyAt(p) \notin work[p].new_esef_filings
       THEN /\ work' = [work EXCEPT ![p].filing = @ + 1]
            /\ UNCHANGED << trackers, lastUpdate, db, pc, op, cur, existing, ok, result,
                            closedSince, feedLocals, outside >>
       ELSE LET row == [filing_id |-> NextEsefFilingId(db),
                        filing_key |-> FilingKeyAt(p),
                        entity_lei |-> remote.esef_index[work[p].entity].lei]
            IN EsefFilingAttempted(
                   p, [db EXCEPT !.esef_filings = @ \cup { row }], TRUE, "none")
    /\ UNCHANGED faults

\* _insert_esef_filing raises: the filing's documents do not load
EsefFilingFails(p) ==
    /\ pc[p] = "ef_f_loop"
    /\ AtFiling(p)
    /\ FilingKeyAt(p) \in work[p].new_esef_filings
    /\ faults > 0
    /\ faults' = faults - 1
    /\ EsefFilingAttempted(p, db, FALSE, "URLError")

\* where update_esef_default goes after insert_esef_new_filings
AfterEsefFilings(w) == IF w.new_esef_entities # {} THEN "ef_entities" ELSE "idle"

\* insert_esef_new_filings after its loops: _close_tracker(True, False)
EsefFilingsClose(p) ==
    /\ pc[p] = "ef_f_loop"
    /\ work[p].entity > Len(remote.esef_index)
    /\ ~WriteLocked(p)
    /\ CloseTracker(p, trackers, TRUE, FALSE, None)
    /\ pc' = [pc EXCEPT ![p] = AfterEsefFilings(work[p])]
    /\ result' = [result EXCEPT ![p] =
                    IF AfterEsefFilings(work[p]) = "idle" THEN "returned" ELSE @]
    /\ work' = [work EXCEPT ![p] =
                  IF AfterEsefFilings(@) = "idle" THEN NoWork ELSE @]
    /\ UNCHANGED << faults, db, op, existing, ok, feedLocals, outside >>

\* insert_esef_new_entities: the LEI records of the chunk arrive
EsefEntitiesFetch(p) ==
    /\ pc[p] = "ef_e_fetch"
    /\ work' = [work EXCEPT ![p].lei_data = SetToSeq(work[p].new_esef_entities)]
    /\ pc' = [pc EXCEPT ![p] = "ef_e_loop"]
    /\ UNCHANGED << faults, trackers, lastUpdate, db, op, cur, existing, ok, result,
                    closedSince, feedLocals, outside >>

\* insert_esef_new_entities: the LEI lookup raises, nothing catches it
EsefEntitiesFetchRaises(p) ==
    /\ pc[p] = "ef_e_fetch"
    /\ faults > 0
    /\ faults' = faults - 1
    /\ pc' = [pc EXCEPT ![p] = "idle"]
    /\ result' = [result EXCEPT ![p] = "URLError"]
    /\ work' = [work EXCEPT ![p] = NoWork]
    /\ UNCHANGED << trackers, lastUpdate, db, op, cur, existing, ok, closedSince,
                    feedLocals, outside >>

\* one LEI record has been attempted
EsefEntityAttempted(p, dbv, success, err) ==
    /\ ~WriteLocked(p)
    /\ db' = dbv
    /\ trackers' = [trackers EXCEPT ![cur[p]] =
                       AdvancedRow(@, 1, success,
                                   IF success THEN None
                                   ELSE truncate_string(ErrText(err)))]
    /\ work' = [work EXCEPT ![p].lei_data = Tail(@)]
    /\ UNCHANGED << lastUpdate, pc, op, cur, existing, ok, result, closedSince,
                    feedLocals, outside >>

\* insert_esef_new_entities: the entity of one LEI record is added
EsefEntityStep(p) ==
    /\ pc[p] = "ef_e_loop"
    /\ work[p].lei_data # << >>
    /\ LET row == [entity_lei |-> Head(work[p].lei_data)]
       IN IF \E r \in db.esef_entities : r.entity_lei = row.entity_lei
          THEN EsefEntityAttempted(p, db, FALSE, "IntegrityError")
          ELSE EsefEntityAttempted(
                   p, [db EXCEPT !.esef_entities = @ \cup { row }], TRUE, "none")
    /\ UNCHANGED faults

\* insert_esef_new_entities: a record cannot be extracted or stored
EsefEntityFails(p) ==
    /\ pc[p] = "ef_e_loop"
    /\ work[p].lei_data # << >>
    /\ faults > 0
    /\ faults' = faults - 1
    /\ EsefEntityAttempted(p, db, FALSE, "OperationalError")

\* insert_esef_new_entities after its loops: _close_tracker(True, False)
EsefEntitiesClose(p) ==
    /\ pc[p] = "ef_e_loop"
    /\ work[p].lei_data = << >>
    /\ ~WriteLocked(p)
    /\ CloseTracker(p, trackers, TRUE, FALSE, None)
    /\ pc' = [pc EXCEPT ![p] = "idle"]
    /\ result' = [result EXCEPT ![p] = "returned"]
    /\ work' = [work EXCEPT ![p] = NoWork]
    /\ UNCHANGED << faults, db, op, existing, ok, feedLocals, outside >>

EsefStep(p) ==
    \/ UpdateEsefDefault(p)
    \/ EsefMakeTracker(p)
    \/ EsefTotal(p)
    \/ EsefFilingStep(p)
    \/ EsefFilingFails(p)
    \/ EsefFilingsClose(p)
    \/ EsefEntitiesFetch(p)
    \/ EsefEntitiesFetchRaises(p)
    \/ EsefEntityStep(p)
    \/ EsefEntityFails(p)
    \/ EsefEntitiesClose(p)

(***************************************************************************)
(* The processes against one store.                                        *)
(***************************************************************************)
Next ==
    \E p \in Procs :
        \/ MakeTrackerInsert(p)
        \/ Close(p)
        \/ UpdateFeedsStep(p)
        \/ DetectStep(p)
        \/ FilersStep(p)
        \/ EsefStep(p)

Spec == Init /\ [][Next]_vars

(***************************************************************************)
(* The command line: do_update_tasks runs the update tasks of one process; *)
(* SIGTERM or SIGINT raises SystemExit at the statement the process is at. *)
(***************************************************************************)
\* the statement is inside the try of filers_quick_update
InFilersTry(p) ==
    \/ pc[p] \in { "fl_new", "fl_existing", "fl_total", "fl_loop" }
    \/ pc[p] = "mt_insert" /\ op[p] \in { "insert_new_filers", "update_existing_filers" }

\* handle_main_termination raises SystemExit inside an update task.  No
\* `except Exception` catches it, an open connection is closed without commit.
\* filers_quick_update catches it, calls do_exit_cleanup(False, True, note) and
\* returns; from the other tasks it reaches do_update_tasks, which calls
\* do_exit_cleanup(False, True, note) and raises it again.  str(SystemExit())
\* is the empty string
Signal(p) ==
    /\ pc[p] \notin { "idle", "exited" }
    /\ ~WriteLocked(p)
    /\ IF cur[p] # 0
       THEN CloseTracker(p, trackers, FALSE, TRUE, truncate_string(Str("", 0)))
       ELSE UNCHANGED << trackers, lastUpdate, cur, closedSince >>
    /\ pc' = [pc EXCEPT ![p] = IF InFilersTry(p) THEN "idle" ELSE "exited"]
    /\ result' = [result EXCEPT ![p] = IF InFilersTry(p) THEN "interrupted" ELSE "SystemExit"]
    /\ txn' = [txn EXCEPT ![p] = NoTxn]
    /\ work' = [work EXCEPT ![p] = NoWork]
    /\ todo' = [todo EXCEPT ![p] = << >>]
    /\ idx' = [idx EXCEPT ![p] = 0]
    /\ incl' = [incl EXCEPT ![p] = FALSE]
    /\ UNCHANGED << faults, db, op, existing, ok, closeCalls, outside >>

NextSignal ==
    \/ MakeTrackerInsert(1)
    \/ UpdateFeedsStep(1)
    \/ DetectStep(1)
    \/ FilersStep(1)
    \/ EsefStep(1)
    \/ Signal(1)

SpecSignal == Init /\ [][NextSignal]_vars

(***************************************************************************)
(* One process synchronising the feeds while the remote side moves on.     *)
(***************************************************************************)
\* the remote side only grows: a listed feed stays listed, stamps do not go back
Newer(old, new) ==
    /\ \A i \in 1..Len(old.listing) : \E j \in 1..Len(new.listing) :
          /\ new.listing[j].feed_id = old.listing[i].feed_id
          /\ new.listing[j].last_modified_date >= old.listing[i].last_modified_date
    /\ new.latest.build >= old.latest.build

\* between two runs the remote side publishes
RemoteChanges ==
    /\ \E r \in Remotes : r # remote /\ Newer(remote, r) /\ remote' = r
    /\ \A p \in Procs : pc[p] = "idle"
    /\ UNCHANGED << faults, trackers, lastUpdate, db, pc, op, cur, existing, ok, work,
                    result, closedSince, feedLocals, diffCall, filterCall,
                    prepCall, searchCall, libCall >>

InitFeeds ==
    /\ InitStore
    /\ faults = MaxFaults
    /\ remote \in Remotes
    /\ diffCall = NoDiff
    /\ filterCall = NoFilter
    /\ prepCall = NoPrep
    /\ searchCall = NoSearch
    /\ libCall = NoCall

NextFeeds ==
    \/ MakeTrackerInsert(1)
    \/ UpdateFeedsStep(1)
    \/ RemoteChanges

SpecFeeds == InitFeeds /\ [][NextFeeds]_vars

(***************************************************************************)
(* One process synchronising the feeds and tagging the duplicates, as      *)
(* update_sec_default does one after the other, while the remote side      *)
(* moves on.                                                               *)
(***************************************************************************)
NextSec ==
    \/ MakeTrackerInsert(1)
    \/ UpdateFeedsStep(1)
    \/ DetectStep(1)
    \/ RemoteChanges

SpecSec == InitFeeds /\ [][NextSec]_vars

(***************************************************************************)
(* get_new_and_modified_feeds on its own, for any stored map and listing.  *)
(***************************************************************************)
\* entries of the listings the diff is applied to
MaxDiffLen == 3

DiffRows == { ListingRow(f, s, FALSE) : f \in FeedIds, s \in Stamps }
DiffListings == UNION { [1..n -> DiffRows] : n \in 0..MaxDiffLen }
ExistingMaps == UNION { [ids -> Stamps] : ids \in SUBSET FeedIds }

InitDiff ==
    /\ InitStore
    /\ faults = MaxFaults
    /\ remote = Remote(<< >>, [build |-> 202202, items |-> << >>])
    /\ diffCall \in { [existing_feeds_dict |-> e, feeds |-> f, out |-> << >>,
                       done |-> FALSE] : e \in ExistingMaps, f \in DiffListings }
    /\ filterCall = NoFilter
    /\ prepCall = NoPrep
    /\ searchCall = NoSearch
    /\ libCall = NoCall

ApplyDiff ==
    /\ ~diffCall.done
    /\ diffCall' = [diffCall EXCEPT
                      !.out = get_new_and_modified_feeds(diffCall.existing_feeds_dict,
                                                         diffCall.feeds),
                      !.done = TRUE]
    /\ UNCHANGED << faults, remote, trackers, lastUpdate, db, pc, op, cur, existing, ok,
                    work, result, closedSince, feedLocals, filterCall, prepCall,
                    searchCall, libCall >>

SpecDiff == InitDiff /\ [][ApplyDiff]_vars

(***************************************************************************)
(* date_filter_feeds on its own, for any listing and any date arguments.   *)
(***************************************************************************)
FilterMonths == { 202201, 202202, 202203 }
\* the day of the month the listing is read on, when the last month has not ended
Today == 10
FilterDays == { 1, 20 }

\* listings as get_monthly_rss_feeds_links returns them: ascending feed_date,
\* the last row flagged, its feed_date the month's end or, in the running
\* month, today
FilterListingOf(months, running) ==
    LET sorted == SortByFeedId(SetToSeq({ ListingRow(m, 1, FALSE) : m \in months }))
        n == Len(sorted)
    IN [i \in 1..n |->
          IF i < n THEN sorted[i]
          ELSE [sorted[i] EXCEPT
                  !.is_last_month = TRUE,
                  !.feed_date = IF running THEN Date(sorted[i].feed_id, Today) ELSE @]]

FilterListings ==
    { FilterListingOf(months, running) :
        months \in (SUBSET FilterMonths) \ { {} }, running \in BOOLEAN }

FilterDates == { None } \cup { Date(m, d) : m \in FilterMonths, d \in FilterDays }

InitFilter ==
    /\ InitStore
    /\ faults = MaxFaults
    /\ remote = Remote(<< >>, [build |-> 202202, items |-> << >>])
    /\ diffCall = NoDiff
    /\ filterCall \in { [all_feeds |-> l, from_date |-> f, to_date |-> t, keep_last |-> k,
                          out |-> << >>, raised |-> "none", done |-> FALSE] :
                           l \in FilterListings, f \in FilterDates, t \in FilterDates,
                           k \in BOOLEAN }
    /\ prepCall = NoPrep
    /\ searchCall = NoSearch
    /\ libCall = NoCall

ApplyFilter ==
    /\ ~filterCall.done
    /\ filterCall' =
          IF BadDateRange(filterCall.from_date, filterCall.to_date)
          THEN [filterCall EXCEPT !.raised = ERR_BAD_DATE_RANGE, !.done = TRUE]
          ELSE [filterCall EXCEPT
                  !.out = date_filter_feeds(filterCall.all_feeds, filterCall.from_date,
                                            filterCall.to_date, filterCall.keep_last),
                  !.done = TRUE]
    /\ UNCHANGED << faults, remote, trackers, lastUpdate, db, pc, op, cur, existing, ok,
                    work, result, closedSince, feedLocals, diffCall, prepCall,
                    searchCall, libCall >>

SpecFilter == InitFilter /\ [][ApplyFilter]_vars

(***************************************************************************)
(* load_and_prep_feed and extract_filings_data_from_rss_items on their     *)
(* own, for any document and any rows an earlier merge has stored.         *)
(***************************************************************************)
\* items a document may carry; a1 is reported a second time, accepted later
PrepItems ==
    { Item("a1", 2, 2, "c1", "Acme"), Item("a1", 4, 4, "c1", "Acme"),
      Item("a2", 3, 3, "c2", "Globex"), Item("a3", 1, 1, "c2", "Globex") }
\* items of the document that is prepared, and of the one merged before
MaxDocLen == 3
MaxStoredLen == 2

PrepDocs(n) == UNION { [1..k -> PrepItems] : k \in 0..n }

\* what the merge of a brand-new monthly feed 202201 with these items stored
StoredBy(items) ==
    IF items = << >> THEN [feeds |-> {}, filings |-> {}]
    ELSE [feeds |-> { get_feed_info(Tagged(ListingRow(202201, 1, TRUE), "new"),
                                    [build |-> 0, items |-> items]) },
          filings |-> SeqRange(extract_filings_data_from_rss_items(
                                   202201, FilingId(202201, FirstSeq),
                                   SortByPubDate(items)).filings_list)]

\* what the merge of the latest filings, built in 202201, stored in an empty
\* store: the Filing rows and no Feed row
StoredByLatest(items) == [StoredBy(items) EXCEPT !.feeds = {}]

\* the feed that is prepared: monthly feed 202201, new or modified, or the
\* latest filings, built in the stored month or the month after
PrepFeeds(stored) ==
    (IF stored.feeds = {} THEN { Tagged(ListingRow(202201, 1, TRUE), "new") }
     ELSE { Tagged(ListingRow(202201, 2, TRUE), "modified") })
    \cup { latest_feed_dict }

InitPrep ==
    /\ InitStore
    /\ faults = MaxFaults
    /\ remote = Remote(<< >>, [build |-> 202202, items |-> << >>])
    /\ diffCall = NoDiff
    /\ filterCall = NoFilter
    /\ searchCall = NoSearch
    /\ libCall = NoCall
    /\ prepCall \in { [stored |-> st, feed |-> f, doc |-> [build |-> b, items |-> d],
                        done |-> FALSE] :
                         st \in { StoredBy(i) : i \in PrepDocs(MaxStoredLen) }
                                   \cup { StoredByLatest(i) : i \in PrepDocs(MaxStoredLen) },
                         f \in { Tagged(ListingRow(202201, 1, TRUE), "new"),
                                  Tagged(ListingRow(202201, 2, TRUE), "modified"),
                                  latest_feed_dict },
                         b \in { 202201, 202202 }, d \in PrepDocs(MaxDocLen) }
    /\ prepCall.feed \in PrepFeeds(prepCall.stored)
    /\ prepCall.feed # latest_feed_dict => prepCall.doc.build = 202201

ApplyPrep ==
    /\ ~prepCall.done
    /\ LET prep == load_and_prep_feed(prepCall.stored, prepCall.feed, prepCall.doc)
           rows == extract_filings_data_from_rss_items(
                       prep.feed_data.feed_id, prep.initial_filing_id,
                       prep.new_or_modified_filings)
       IN prepCall' = [stored |-> prepCall.stored, feed |-> prepCall.feed,
                       doc |-> prepCall.doc, prep |-> prep, rows |-> rows, done |-> TRUE]
    /\ UNCHANGED << faults, remote, trackers, lastUpdate, db, pc, op, cur, existing, ok,
                    work, result, closedSince, feedLocals, diffCall, filterCall,
                    searchCall, libCall >>

SpecPrep == InitPrep /\ [][ApplyPrep]_vars

(***************************************************************************)
(* detect_and_tag_duplicates on a store that the merges of three monthly   *)
(* feeds have filled, each feed reporting any of two accession numbers.    *)
(***************************************************************************)
DupFeedIds == { 202201, 202202, 202203 }

\* the item of an accession number in the document of a feed: a later feed
\* reports it with a later acceptance time
DupItem(acc, feed_id) ==
    Item(acc, feed_id - 202200, feed_id - 202200, IF acc = "a1" THEN "c1" ELSE "c2",
         IF acc = "a1" THEN "Acme" ELSE "Globex")

\* the documents of a feed: none, one or both of the accession numbers
DupDocs(feed_id) ==
    { << >>, << DupItem("a1", feed_id) >>, << DupItem("a2", feed_id) >>,
      << DupItem("a1", feed_id), DupItem("a2", feed_id) >> }

\* the rows the merge of the brand-new monthly feed with these items stores
MergedRows(feed_id, items) ==
    LET rows == extract_filings_data_from_rss_items(
                    feed_id, FilingId(feed_id, FirstSeq), SortByPubDate(items))
    IN [feeds |-> { get_feed_info(Tagged(ListingRow(feed_id, 1, FALSE), "new"),
                                  [build |-> 0, items |-> items]) },
        filings |-> SeqRange(rows.filings_list), files |-> SeqRange(rows.files_list)]

\* docs gives the document of every feed
MergedStore(docs) ==
    [EmptyStore EXCEPT
       !.feeds = UNION { MergedRows(f, docs[f]).feeds : f \in DupFeedIds },
       !.filings = UNION { MergedRows(f, docs[f]).filings : f \in DupFeedIds },
       !.files = UNION { MergedRows(f, docs[f]).files : f \in DupFeedIds }]

InitDup ==
    /\ InitProcs
    /\ db \in { MergedStore(docs) :
                  docs \in { d \in [DupFeedIds -> UNION { DupDocs(f) : f \in DupFeedIds }] :
                               \A f \in DupFeedIds : d[f] \in DupDocs(f) } }
    /\ faults = MaxFaults
    /\ remote = Remote(<< >>, [build |-> 202203, items |-> << >>])
    /\ diffCall = NoDiff
    /\ filterCall = NoFilter
    /\ prepCall = NoPrep
    /\ searchCall = NoSearch
    /\ libCall = NoCall

NextDup ==
    \/ MakeTrackerInsert(1)
    \/ DetectStep(1)

SpecDup == InitDup /\ [][NextDup]_vars

(***************************************************************************)
(* search_filings over the store of the three feeds, between the runs of   *)
(* the tagger.                                                             *)
(***************************************************************************)
\* criteria that say nothing about duplicates: each one given or not
SearchCriteria ==
    [publication_date_from : { None, DateArg(2) }, publication_date_to : { None, DateArg(2) },
     filing_number : { None, ListArg({ "a1" }) }, filer_identifier : { None, ListArg({ "c2" }) },
     industry_code : { None }, industry_code_tree : { None }, industry_name : { None },
     filer_name : { None }]

\* the caller runs the query of search_filings and reads its rows
SearchFilings ==
    /\ pc[1] = "idle"
    /\ \E c \in SearchCriteria : \E limit \in { DefaultLimit, 1 } :
          \E out \in search_filings(db, c, limit) :
             searchCall' = [criteria |-> c, limit |-> limit, out |-> out, done |-> TRUE]
    /\ UNCHANGED << faults, remote, trackers, lastUpdate, db, pc, op, cur, existing, ok,
                    work, result, closedSince, feedLocals, diffCall, filterCall,
                    prepCall, libCall >>

NextSearch ==
    \/ MakeTrackerInsert(1)
    \/ DetectStep(1)
    \/ SearchFilings

SpecSearch == InitDup /\ [][NextSearch]_vars

(***************************************************************************)
(* Functions on their own: the arguments are drawn in the initial state,   *)
(* one step applies the function.                                          *)
(***************************************************************************)
\* every variable but libCall
notLib == << faults, remote, trackers, lastUpdate, db, pc, op, cur, existing, ok, incl, todo, idx, txn, work, closeCalls, result, closedSince, diffCall, filterCall, prepCall, searchCall >>

\* the state around a call: no operation runs
InitLib ==
    /\ InitStore
    /\ faults = MaxFaults
    /\ remote = Remote(<< >>, [build |-> 202202, items |-> << >>])
    /\ diffCall = NoDiff
    /\ filterCall = NoFilter
    /\ prepCall = NoPrep
    /\ searchCall = NoSearch

\* catalog documents: entities in document order, each with up to
\* MaxFilingsLen filing keys, no key twice
EsefKeys == { "A", "B", "C" }
EsefLeis == { "L1", "L2" }
MaxIndexLen == 2
MaxFilingsLen == 2

KeySeqs == { ks \in UNION { [1..n -> EsefKeys] : n \in 0..MaxFilingsLen } : \A i, j \in 1..Len(ks) : ks[i] = ks[j] => i = j }

EsefIndexes ==
    { ix \in UNION { [1..n -> [lei : EsefLeis, filings : KeySeqs]] : n \in 0..MaxIndexLen } :
        \A i, j \in 1..Len(ix) :
           i # j => /\ ix[i].lei # ix[j].lei
                    /\ SeqRange(ix[i].filings) \cap SeqRange(ix[j].filings) = {} }

\* stores an earlier run of update_esef_default may have left
EsefKeyId(k) == CASE k = "A" -> 1 [] k = "B" -> 2 [] OTHER -> 3
EsefStores ==
    { [EmptyStore EXCEPT !.esef_filings = { [filing_id |-> EsefKeyId(k), filing_key |-> k, entity_lei |-> "L1"] : k \in ks },
                         !.esef_entities = { [entity_lei |-> l] : l \in ls }] :
        ks \in SUBSET EsefKeys, ls \in SUBSET EsefLeis }

InitEsefDiff ==
    /\ InitLib
    /\ libCall \in { [fn |-> "get_esef_new_filings_new_entities", stored |-> st,
                       esef_index |-> ix, done |-> FALSE] :
                        st \in EsefStores, ix \in EsefIndexes }

ApplyEsefDiff ==
    /\ libCall.fn = "get_esef_new_filings_new_entities"
    /\ ~libCall.done
    /\ libCall' = [fn |-> libCall.fn, stored |-> libCall.stored,
                   esef_index |-> libCall.esef_index, done |-> TRUE,
                   out |-> get_esef_new_filings_new_entities(libCall.stored,
                                                             libCall.esef_index)]
    /\ UNCHANGED notLib

SpecEsefDiff == InitEsefDiff /\ [][ApplyEsefDiff]_vars

(***************************************************************************)
(* get_changed_and_new_ciks over the filings, filers and former names of   *)
(* two ciks.                                                               *)
(***************************************************************************)
\* filings the merges may have stored: c1 under two names, c2 under one
CikFilings ==
    { get_filing_info(Item("a1", 2, 2, "c1", "Acme Corp"), 202201, FilingId(202201, FirstSeq)),
      get_filing_info(Item("a2", 4, 4, "c1", "Acme Inc"), 202202, FilingId(202202, FirstSeq)),
      get_filing_info(Item("a3", 3, 3, "c2", "Globex"), 202201, FilingId(202201, FirstSeq + 1)) }

\* the Filer rows an earlier filers update may have stored
CikFilers ==
    { [cik_number |-> "c1", conformed_name |-> "ACME CORP"],
      [cik_number |-> "c1", conformed_name |-> "Acme Inc"],
      [cik_number |-> "c2", conformed_name |-> "Globex"] }

\* former names of c1: changed before its filings, or after them
CikFormerNames ==
    { [cik_number |-> "c1", date_changed |-> 1, name |-> "Acme Old"],
      [cik_number |-> "c1", date_changed |-> 5, name |-> "Acme Corp"] }

\* stores: a cik has at most one Filer row, former names only with its Filer
CikStores ==
    { [EmptyStore EXCEPT !.filings = fs, !.filers = rs, !.former_names = ns] :
        fs \in SUBSET CikFilings,
        rs \in { r \in SUBSET CikFilers : \A x, y \in r : x.cik_number = y.cik_number => x = y },
        ns \in SUBSET CikFormerNames }

InitCiks ==
    /\ InitLib
    /\ libCall \in { [fn |-> "get_changed_and_new_ciks", stored |-> st, done |-> FALSE] :
                        st \in CikStores }
    /\ \A n \in libCall.stored.former_names :
          \E r \in libCall.stored.filers : r.cik_number = n.cik_number

ApplyCiks ==
    /\ libCall.fn = "get_changed_and_new_ciks"
    /\ ~libCall.done
    /\ libCall' = [fn |-> libCall.fn, stored |-> libCall.stored, done |-> TRUE,
                   out |-> get_changed_and_new_ciks(libCall.stored)]
    /\ UNCHANGED notLib

SpecCiks == InitCiks /\ [][ApplyCiks]_vars

(***************************************************************************)
(* filers_quick_update of one process while the lookups of the SEC pages   *)
(* fail in any pattern.  The process keeps running: its next step is taken.*)
(***************************************************************************)
\* lookups that may fail in a behaviour
MaxLookupFaults == 8

InitFilers ==
    /\ InitProcs
    /\ db \in { st \in CikStores :
                  /\ st.filings = CikFilings
                  /\ \A n \in st.former_names : \E r \in st.filers : r.cik_number = n.cik_number }
    /\ faults = MaxLookupFaults
    /\ remote = Remote(<< >>, [build |-> 202202, items |-> << >>])
    /\ diffCall = NoDiff
    /\ filterCall = NoFilter
    /\ prepCall = NoPrep
    /\ searchCall = NoSearch
    /\ libCall = NoCall

NextFilers ==
    \/ MakeTrackerInsert(1)
    \/ FilersStep(1)

SpecFilers == InitFilers /\ [][NextFilers]_vars /\ WF_vars(NextFilers)

(***************************************************************************)
(* update_filer_information on stores of one filer, with lookup results    *)
(* as get_filer_information returns them: last name change first.          *)
(***************************************************************************)
\* former names in one lookup result, and calls with the same result
MaxFormerLen == 3
MaxInfoRuns == 2

LookupNames == { "Acme Old", "Acme Corp" }
LookupPairs == { [date_changed |-> d, name |-> n] : d \in 1..2, n \in LookupNames }

LookupFormerNames ==
    { fs \in UNION { [1..n -> LookupPairs] : n \in 0..MaxFormerLen } :
        \A i \in 1..(Len(fs) - 1) : fs[i].date_changed >= fs[i + 1].date_changed }

LookupInfos ==
    { [cik_number |-> "c1", conformed_name |-> "ACME CORP", former_names |-> fs] :
        fs \in LookupFormerNames }

\* stores that satisfy the keys of the tables: one Filer row per cik, one
\* FormerName row per (cik, name), former names only with their Filer
StoredFormerNames == { [cik_number |-> "c1", date_changed |-> x.date_changed, name |-> x.name] : x \in LookupPairs }

FilerStores ==
    { st \in { [EmptyStore EXCEPT !.filers = rs, !.former_names = ns] :
                 rs \in { {}, { [cik_number |-> "c1", conformed_name |-> "Acme Inc"] } },
                 ns \in SUBSET StoredFormerNames } :
        /\ ~ FormerNameKeyClash(st.former_names, {})
        /\ st.filers = {} => st.former_names = {} }

InitFilerInfo ==
    /\ InitProcs
    /\ db \in FilerStores
    /\ faults = MaxFaults
    /\ remote = Remote(<< >>, [build |-> 202202, items |-> << >>])
    /\ diffCall = NoDiff
    /\ filterCall = NoFilter
    /\ prepCall = NoPrep
    /\ searchCall = NoSearch
    /\ libCall \in { [fn |-> "update_filer_information", cik |-> "c1", is_existing |-> e,
                      info |-> i, done |-> FALSE, runs |-> 0, before |-> EmptyStore,
                      first |-> EmptyStore, ok |-> FALSE] :
                       e \in BOOLEAN, i \in LookupInfos }

\* one call of update_filer_information with the lookup result of the harness
ApplyFilerInfo ==
    /\ libCall.fn = "update_filer_information"
    /\ libCall.runs < MaxInfoRuns
    /\ LET r == update_filer_information(db, libCall.cik, libCall.is_existing, libCall.info)
       IN /\ db' = r.db
          /\ libCall' = [libCall EXCEPT !.done = TRUE, !.runs = @ + 1, !.before = db,
                                        !.first = IF libCall.runs = 0 THEN db ELSE @,
                                        !.ok = r.ok]
    /\ UNCHANGED << faults, remote, trackers, lastUpdate, pc, op, cur, existing, ok, incl, todo >>
    /\ UNCHANGED << idx, txn, work, closeCalls, result, closedSince, diffCall, filterCall, prepCall, searchCall >>

SpecFilerInfo == InitFilerInfo /\ [][ApplyFilerInfo]_vars

(***************************************************************************)
(* search_filings on stores of a few filings of both filing systems.       *)
(***************************************************************************)
\* the SEC filing `n`, as a merge stores it, with the industry of its filer
SearchFiling(n, acc, cik, name, pub, sic) ==
    [filing_id |-> FilingId(202201, n), feed_id |-> 202201, accession_number |-> acc,
     enclosure_url |-> acc, acceptance_datetime |-> pub, pub_date |-> pub,
     cik_number |-> cik, company_name |-> name, duplicate |-> 0, assigned_sic |-> sic]

SearchFilingRows ==
    { SearchFiling(1, "a1", "c1", "Acme Corp", 1, 10),
      SearchFiling(2, "a2", "c2", "Globex", 2, 11),
      SearchFiling(3, "a3", "c3", "ACME", 3, 20),
      SearchFiling(4, "a4", "c4", "Initech", 3, 12) }

SearchStores ==
    { [EmptyStore EXCEPT
         !.filings = fs,
         !.esef_filings = { [filing_key |-> "A", entity_lei |-> "L1", date_added |-> 2] },
         !.esef_entities = { [entity_lei |-> "L1", lei_legal_name |-> "Acme Corp"] }] :
        fs \in SUBSET SearchFilingRows }

\* the criteria of a call: each one given or not
CallCriteria ==
    [publication_date_from : { None, DateArg(2), Unparseable },
     publication_date_to : { None, DateArg(2), Unparseable },
     filing_number : { None, ListArg({ "a1", "a3", "A" }) },
     filer_identifier : { None, ListArg({ "c1", "L1" }) },
     industry_code : { None, ListArg({ "11" }), ListArg({ "20", "12" }) },
     industry_code_tree : { None, ListArg({ "10" }) },
     industry_name : { None, ListArg({ "retail" }) },
     filer_name : { None, ListArg({ " acme", "globex" }) }]

FilingSystems == { "sec", "esef", "SEC", "edgar" }

InitSearchCall ==
    /\ InitProcs
    /\ db \in SearchStores
    /\ faults = MaxFaults
    /\ remote = Remote(<< >>, [build |-> 202202, items |-> << >>])
    /\ diffCall = NoDiff
    /\ filterCall = NoFilter
    /\ prepCall = NoPrep
    /\ searchCall = NoSearch
    /\ libCall \in { [fn |-> "search_filings", filing_system |-> fsys, criteria |-> c,
                      random |-> FALSE, limit |-> NotGiven, product |-> "sqlite",
                      done |-> FALSE, raised |-> "none", code |-> "none", out |-> {},
                      applied |-> None] :
                       fsys \in FilingSystems, c \in CallCriteria }

\* one call of search_filings; the caller reads the rows of the query
ApplySearchCall ==
    /\ libCall.fn = "search_filings"
    /\ ~ libCall.done
    /\ LET r == search_filings_call(db, libCall.filing_system, libCall.criteria,
                                    libCall.random, libCall.limit, libCall.product)
       IN \E out \in (IF r.raised = "none" THEN r.results ELSE { {} }) :
             libCall' = [libCall EXCEPT !.done = TRUE, !.raised = r.raised,
                                        !.code = r.code, !.out = out, !.applied = r.limit]
    /\ UNCHANGED notLib

SpecSearchCall == InitSearchCall /\ [][ApplySearchCall]_vars

\* the limits a caller passes, and the backends of the store
LimitArgs == { NotGiven, None, IntArg(0), IntArg(1), IntArg(3) }
Products == { "sqlite", "postgresql", "mssql" }

\* calls that differ in limit, random and backend
InitLimit ==
    /\ InitProcs
    /\ db \in SearchStores
    /\ faults = MaxFaults
    /\ remote = Remote(<< >>, [build |-> 202202, items |-> << >>])
    /\ diffCall = NoDiff
    /\ filterCall = NoFilter
    /\ prepCall = NoPrep
    /\ searchCall = NoSearch
    /\ libCall \in { [fn |-> "search_filings", filing_system |-> fsys,
                      criteria |-> [publication_date_from |-> d, publication_date_to |-> None,
                                    filing_number |-> None, filer_identifier |-> None,
                                    industry_code |-> None, industry_code_tree |-> None,
                                    industry_name |-> None, filer_name |-> None],
                      random |-> r, limit |-> l, product |-> p,
                      done |-> FALSE, raised |-> "none", code |-> "none", out |-> {},
                      applied |-> None] :
                       fsys \in { "sec", "esef" }, d \in { None, DateArg(2) },
                       r \in BOOLEAN, l \in LimitArgs, p \in Products }

SpecLimit == InitLimit /\ [][ApplySearchCall]_vars

(***************************************************************************)
(* tag_amended_and_multi_langs over the filings of one filing root.        *)
(***************************************************************************)
\* filing numbers of the root, and the runs of the tagger
MaxFilingNumber == 4
MaxTagRuns == 2

\* inferred languages of a filing: none, one, or two with a dominant one
InferredLangs ==
    { {}, { [lang |-> Str("en", 2), facts_in_lang |-> 2] },
      { [lang |-> Str("en", 2), facts_in_lang |-> 2],
        [lang |-> Str("fr", 2), facts_in_lang |-> 1] } }

\* the row _insert_esef_filing stores for the filing <root>/<n>
EsefFilingRow(n, package, loadable, langs) ==
    [filing_id |-> n, filing_root |-> Str("root", 4), filing_number |-> n,
     report_package |-> package, is_loadable |-> loadable, langs |-> langs,
     is_amended_hint |-> FALSE, other_langs_hint |-> FALSE]

\* what the catalog gave for a filing number: nothing, or a filing
FilingChoices ==
    { [stored |-> FALSE, package |-> Str("P1", 2), loadable |-> TRUE, langs |-> {}] }
    \cup [stored : { TRUE }, package : { Str("P1", 2), Str("P2", 2) },
          loadable : BOOLEAN, langs : InferredLangs]

\* the filings of the root: each number stored or not
EsefFilingTables ==
    { { EsefFilingRow(n, t[n].package, t[n].loadable, t[n].langs) :
          n \in { m \in 1..MaxFilingNumber : t[m].stored } } :
        t \in [1..MaxFilingNumber -> FilingChoices] }

InitAmended ==
    /\ InitLib
    /\ libCall \in { [fn |-> "tag_amended_and_multi_langs", runs |-> 0, done |-> FALSE,
                       rows |-> r] : r \in EsefFilingTables }

ApplyAmended ==
    /\ libCall.fn = "tag_amended_and_multi_langs"
    /\ libCall.runs < MaxTagRuns
    /\ libCall' = [libCall EXCEPT !.runs = @ + 1, !.done = TRUE,
                                  !.rows = tag_amended_and_multi_langs(@)]
    /\ UNCHANGED notLib

SpecAmended == InitAmended /\ [][ApplyAmended]_vars

(***************************************************************************)
(* update_esef_default of one process over any catalog document.           *)
(***************************************************************************)
InitEsef ==
    /\ InitStore
    /\ faults = MaxFaults
    /\ remote \in { [Remote(<< >>, [build |-> 202202, items |-> << >>])
                       EXCEPT !.esef_index = ix] : ix \in EsefIndexes }
    /\ diffCall = NoDiff
    /\ filterCall = NoFilter
    /\ prepCall = NoPrep
    /\ searchCall = NoSearch
    /\ libCall = NoCall

NextEsef ==
    \/ MakeTrackerInsert(1)
    \/ EsefStep(1)

SpecEsef == InitEsef /\ [][NextEsef]_vars

(***************************************************************************)
(* Properties.                                                             *)
(***************************************************************************)
OpenRows(task) ==
    { i \in 1..Len(trackers) : trackers[i].task_name = task /\ ~trackers[i].is_closed }

\* p takes the query step of make_tracker
QueryStep(p) == pc[p] # "mt_insert" /\ pc'[p] = "mt_insert"
\* p takes the step of make_tracker that adds the row and returns
InsertStep(p) == pc[p] = "mt_insert" /\ pc'[p] # "mt_insert"

\* C1: in every reachable state, whatever the interleaving of the query and
\* insert steps of concurrent make_tracker calls, at most one tracker row of a
\* task name is open
AtMostOneOpenTracker == \A t \in Tasks : Cardinality(OpenRows(t)) <= 1

\* C2: make_tracker returns false exactly when its query found an open row of
\* the task; the row it then adds is closed, interrupted and carries a note;
\* otherwise it adds one open row and returns true
MakeTrackerContract ==
    [][\A p \in Procs :
          /\ QueryStep(p) =>
                (existing'[p] # 0 <=> OpenRows(TaskOf(op'[p])) # {})
          /\ InsertStep(p) =>
                /\ Len(trackers') = Len(trackers) + 1
                /\ SubSeq(trackers', 1, Len(trackers)) = trackers
                /\ trackers'[Len(trackers')].task_name = TaskOf(op[p])
                /\ ok'[p] <=> existing[p] = 0
                /\ IF existing[p] # 0
                   THEN /\ trackers'[Len(trackers')].is_closed
                        /\ trackers'[Len(trackers')].is_interrupted
                        /\ trackers'[Len(trackers')].task_notes # << >>
                   ELSE ~trackers'[Len(trackers')].is_closed]_vars

\* a call was turned away: its row is the last one, closed and interrupted,
\* while the row that made it so is still open
MakeTrackerRejected ==
    \E p \in Procs :
        /\ ~ok[p]
        /\ cur[p] = Len(trackers)
        /\ trackers[cur[p]].is_closed /\ trackers[cur[p]].is_interrupted
        /\ trackers[cur[p]].task_notes = << AbortedMsg >>
        /\ OpenRows(trackers[cur[p]].task_name) # {}

\* C3: when a tracker-wrapped operation has returned or raised, the tracker
\* row it opened is closed
NoOpenTrackerLeftBehind ==
    \A p \in Procs : (pc[p] = "idle" /\ cur[p] # 0) => trackers[cur[p]].is_closed

\* C4: after _close_tracker closed the open tracker of a task, the next
\* make_tracker for that task returns true, provided no other process opened a
\* tracker of the task in between
RetryAfterCloseSucceeds ==
    [][\A p \in Procs :
          (InsertStep(p) /\ TaskOf(op[p]) \in closedSince[p]) => ok'[p]]_vars

\* C5: the tracker of an update_feeds is closed exactly once, _close_tracker is
\* not invoked a second time, and update_feeds does not fail on a repeated close
UpdateFeedsClosesOnce ==
    \A p \in Procs : closeCalls[p] <= 1 /\ result[p] # "AssertionError"

\* a step of process p
Moved(p) ==
    \/ pc'[p] # pc[p] \/ cur'[p] # cur[p] \/ idx'[p] # idx[p]
    \/ txn'[p] # txn[p] \/ work'[p] # work[p] \/ result'[p] # result[p]

\* C6: once make_tracker has returned false the calling operation writes no
\* Feed, Filing, File, Filer, FormerName or catalog row
RejectedWritesNothing ==
    [][\A p \in Procs : (~ok[p] /\ Moved(p)) => db' = db]_vars

\* a turned away filer task has ended in do_exit_cleanup, a turned away
\* update_feeds in ERR_NO_TRACKER
RejectedEnded ==
    \E p \in Procs :
        /\ ~ok[p] /\ pc[p] = "idle"
        /\ \/ op[p] = "insert_new_filers" /\ result[p] = "returned" /\ cur[p] = 0
           \/ op[p] = "update_feeds" /\ result[p] = ERR_NO_TRACKER

\* the call of insert_feed_into_db that p is in ends with an exception
MergeRaises(p) ==
    /\ txn[p].stage = "open" /\ txn'[p].stage = "none"
    /\ trackers'[cur[p]].failed_items = trackers[cur[p]].failed_items + 1

\* C7: when a statement or the commit of insert_feed_into_db raises, the store
\* is left as it was, and while a call is under way the store changes at its
\* successful commit only: so after a failed call the store holds no Feed,
\* Filing or File row written by it and every row committed before is
\* unchanged; the error reaches the caller, which counts the feed as failed
\* and not as successful
FeedMergeAllOrNothing ==
    [][\A p \in Procs :
          /\ MergeRaises(p) =>
                /\ db' = db
                /\ trackers'[cur[p]].successful_items = trackers[cur[p]].successful_items
          /\ (txn[p].stage = "open" /\ db' # db) =>
                /\ pc[p] = "ifd_commit"
                /\ trackers'[cur[p]].successful_items =
                      trackers[cur[p]].successful_items + 1
                /\ trackers'[cur[p]].failed_items = trackers[cur[p]].failed_items]_vars

\* the merge of the first feed of a run was given up after statements had run
\* (no note tells of a document that did not load) and its Feed row is not stored
MergeRolledBack ==
    \E p \in Procs :
        /\ pc[p] = "uf_loop" /\ idx[p] = 1 /\ Len(todo[p]) >= 1
        /\ trackers[cur[p]].failed_items = 1
        /\ trackers[cur[p]].task_notes = << >>
        /\ \A r \in db.feeds : r.feed_id # todo[p][1].feed_id

\* an item of update_feeds' run ends in failure
FeedFails(p) ==
    /\ pc[p] \in { "uf_loop", "ifd_feed", "ifd_filings", "ifd_files", "ifd_commit" }
    /\ idx'[p] = idx[p] + 1
    /\ trackers'[cur[p]].successful_items = trackers[cur[p]].successful_items

\* C8: a feed of update_feeds that fails to load or merge adds one to
\* completed_items and to failed_items and a note to the tracker, and the run
\* goes on with the next item of the same list
FeedFailureRecorded ==
    [][\A p \in Procs :
          FeedFails(p) =>
             /\ trackers'[cur[p]].completed_items = trackers[cur[p]].completed_items + 1
             /\ trackers'[cur[p]].failed_items = trackers[cur[p]].failed_items + 1
             /\ Len(trackers'[cur[p]].task_notes) = Len(trackers[cur[p]].task_notes) + 1
             /\ pc'[p] = "uf_loop"
             /\ todo'[p] = todo[p]]_vars

\* how often entry x occurs in list s with tag `status` (any tag for "")
Occurs(s, x, status) ==
    Cardinality({ j \in 1..Len(s) :
                    /\ s[j].feed_id = x.feed_id
                    /\ s[j].last_modified_date = x.last_modified_date
                    /\ status # "" => s[j].new_or_modified = status })

\* C9: get_new_and_modified_feeds returns a listing entry as "new" iff its
\* feed_id is not in the stored map, as "modified" iff it is and the remote
\* stamp is greater than the stored one, and drops every other entry
DiffClassifies ==
    diffCall.done =>
        LET stored == diffCall.existing_feeds_dict
            untagged == [i \in 1..Len(diffCall.feeds) |->
                            [feed_id |-> diffCall.feeds[i].feed_id,
                             last_modified_date |-> diffCall.feeds[i].last_modified_date]]
        IN /\ \A i \in 1..Len(diffCall.feeds) :
                LET x == diffCall.feeds[i]
                IN IF x.feed_id \notin DOMAIN stored
                   THEN /\ Occurs(diffCall.out, x, "new") = Occurs(untagged, x, "")
                        /\ Occurs(diffCall.out, x, "modified") = 0
                   ELSE IF x.last_modified_date > stored[x.feed_id]
                   THEN /\ Occurs(diffCall.out, x, "modified") = Occurs(untagged, x, "")
                        /\ Occurs(diffCall.out, x, "new") = 0
                   ELSE Occurs(diffCall.out, x, "") = 0
           /\ \A j \in 1..Len(diffCall.out) :
                /\ diffCall.out[j].new_or_modified \in { "new", "modified" }
                /\ Occurs(untagged, diffCall.out[j], "") > 0

\* a diff that returned a new and a modified entry and dropped an entry that
\* carries the stored stamp
DiffNewModifiedDropped ==
    /\ diffCall.done
    /\ \E i, j \in 1..Len(diffCall.out) :
          /\ diffCall.out[i].new_or_modified = "new"
          /\ diffCall.out[j].new_or_modified = "modified"
    /\ \E i \in 1..Len(diffCall.feeds) :
          /\ diffCall.feeds[i].feed_id \in DOMAIN diffCall.existing_feeds_dict
          /\ diffCall.feeds[i].last_modified_date =
                diffCall.existing_feeds_dict[diffCall.feeds[i].feed_id]
    /\ Len(diffCall.out) < Len(diffCall.feeds)

\* C10: the list update_feeds works through is sorted by feed_id ascending, its
\* feeds are merged in the order of the list, and the latest pseudo-feed is
\* merged only when every monthly feed of the list has been attempted
MergesOldestFirst ==
    /\ [](\A p \in Procs : \A i, j \in 1..Len(todo[p]) :
             i < j => todo[p][i].feed_id <= todo[p][j].feed_id)
    /\ [][\A p \in Procs :
             (txn[p].stage = "none" /\ txn'[p].stage = "open") =>
                IF idx[p] < Len(todo[p])
                THEN /\ txn'[p].feed_data.feed_link = todo[p][idx[p] + 1].link
                     /\ \A k \in 1..idx[p] :
                           todo[p][k].feed_id < txn'[p].feed_data.feed_id
                ELSE txn'[p].feed_data.feed_link = LATEST_FEEDS_URL]_vars

\* the latest pseudo-feed is being merged after the two monthly feeds of a run
LatestAfterTwoFeeds ==
    \E p \in Procs :
        /\ Len(todo[p]) = 2 /\ idx[p] = 2
        /\ txn[p].stage = "open"
        /\ txn[p].feed_data.feed_link = LATEST_FEEDS_URL

\* the range a call of date_filter_feeds is given: from_date up to the last day
\* of to_date's month, an argument of None leaving its side open
InGivenRange(c, row) ==
    /\ c.from_date # None => DateLE(c.from_date, row.feed_date)
    /\ c.to_date # None =>
          \/ row.feed_date.ym < c.to_date.ym
          \/ row.feed_date.ym = c.to_date.ym /\ row.feed_date.d <= LastDay(c.to_date.ym)

\* C11: for a non-empty listing and from_date <= to_date, date_filter_feeds
\* with keep_last returns the most recent listing entry exactly once, in or out
\* of the range, and every other entry it returns lies in the range that ends
\* with the last day of to_date's month
FilterKeepsLast ==
    LET c == filterCall
        fromLEto == c.from_date = None \/ c.to_date = None \/ DateLE(c.from_date, c.to_date)
    IN (c.done /\ c.keep_last /\ fromLEto) =>
          /\ c.raised = "none"
          /\ Cardinality({ i \in 1..Len(c.out) : c.out[i].is_last_month }) = 1
          /\ \A i \in 1..Len(c.out) :
                IF c.out[i].is_last_month
                THEN c.out[i] = c.all_feeds[Len(c.all_feeds)]
                ELSE /\ InGivenRange(c, c.out[i])
                     /\ \E j \in 1..Len(c.all_feeds) : c.all_feeds[j] = c.out[i]

\* the most recent entry was kept although the range ends before it, and an
\* older entry outside the range was left out
FilterKeptLastOutOfRange ==
    LET c == filterCall
    IN /\ c.done /\ c.keep_last /\ c.raised = "none"
       /\ c.from_date # None /\ c.to_date # None /\ DateLE(c.from_date, c.to_date)
       /\ Len(c.all_feeds) = 3 /\ Len(c.out) = 2
       /\ ~InGivenRange(c, c.all_feeds[3])
       /\ c.out[2] = c.all_feeds[3]

\* the stored tuples a prepared feed is compared with: those of its own
\* feed_id, for the latest filings those of the most recent stored feed
StoredTuples(c) ==
    LET of_feed == IF c.prep.is_latest THEN MaxFeedId(c.stored.feeds)
                   ELSE c.prep.feed_data.feed_id
    IN { RowTuple(r) : r \in { x \in c.stored.filings : x.feed_id = of_feed } }

\* C12: for a modified feed and for the latest filings the items selected for
\* insertion are exactly the parsed items whose tuple (accession number,
\* enclosure URL, acceptance time, publication date, entity id) is not stored
SelectsUnstoredTuples ==
    (prepCall.done /\ (prepCall.prep.is_modified \/ prepCall.prep.is_latest)) =>
        SeqRange(prepCall.prep.new_or_modified_filings) =
            { i \in SeqRange(prepCall.doc.items) : ItemTuple(i) \notin StoredTuples(prepCall) }

\* a brand-new monthly feed has been prepared
PreparedNew == prepCall.done /\ prepCall.feed.new_or_modified = "new"

\* C13 as stated: for a brand-new feed the initial filing id computed by
\* load_and_prep_feed is feed_id * 10^6 + 1
InitialIdIsFeedIdPlusOne ==
    PreparedNew => prepCall.prep.initial_filing_id = FilingId(prepCall.feed.feed_id, 1)

\* C13 amended: for a brand-new feed the initial filing id computed by
\* load_and_prep_feed is feed_id * 10^6 + 100001, whatever rows are stored,
\* and it is the id of the first row extracted
InitialIdIsFeedIdPlus100001 ==
    PreparedNew =>
        /\ prepCall.prep.initial_filing_id = FilingId(prepCall.feed.feed_id, 100001)
        /\ prepCall.rows.filings_list # << >> =>
               prepCall.rows.filings_list[1].filing_id = FilingId(prepCall.feed.feed_id, 100001)

\* a brand-new feed was prepared while Filing rows of its feed_id were stored
\* (by a merge of the latest filings), and rows were extracted
NewFeedOverStoredRows ==
    /\ PreparedNew
    /\ prepCall.rows.filings_list # << >>
    /\ \E r \in prepCall.stored.filings : r.feed_id = prepCall.feed.feed_id

\* C14: the Filing rows of one merge carry consecutive ids from the initial
\* id on, in ascending publication-date order: a row published earlier never
\* has a larger id than one published later; the three items of a brand-new
\* feed 202201 get 202201100001, 202201100002, 202201100003
IdsFollowPubDate ==
    prepCall.done =>
        LET fl == prepCall.rows.filings_list
            id0 == prepCall.prep.initial_filing_id
        IN /\ Len(fl) = Len(prepCall.prep.new_or_modified_filings)
           /\ \A k \in 1..Len(fl) : fl[k].filing_id = FilingId(id0.feed, id0.n + k - 1)
           /\ \A i, j \in 1..Len(fl) :
                 fl[i].pub_date < fl[j].pub_date =>
                    /\ fl[i].filing_id.feed = fl[j].filing_id.feed
                    /\ fl[i].filing_id.n < fl[j].filing_id.n
           /\ \A k \in 1..Len(fl) :
                 \E i \in SeqRange(prepCall.prep.new_or_modified_filings) :
                    RowTuple(fl[k]) = ItemTuple(i)
           /\ (PreparedNew /\ Len(prepCall.doc.items) = 3) =>
                 [k \in 1..3 |-> fl[k].filing_id] =
                    << FilingId(202201, 100001), FilingId(202201, 100002),
                       FilingId(202201, 100003) >>

\* three items of a brand-new feed, listed latest first, have been given ids
ThreeItemsOutOfOrder ==
    /\ PreparedNew
    /\ Len(prepCall.rows.filings_list) = 3
    /\ prepCall.doc.items[1].pubDate > prepCall.doc.items[2].pubDate
    /\ prepCall.doc.items[2].pubDate > prepCall.doc.items[3].pubDate

\* C15: the merge of the latest filings neither adds nor changes a Feed row
\* and every Filing row it adds carries the feed_id of the most recent stored
\* Feed; hence every Filing row's feed_id is the id of a stored Feed row
LatestFilingsJoinNewestFeed ==
    /\ [](\A f \in db.filings : \E r \in db.feeds : r.feed_id = f.feed_id)
    /\ [][\A p \in Procs :
             (txn[p].stage = "open" /\ txn[p].feed_data.feed_link = LATEST_FEEDS_URL) =>
                /\ db'.feeds = db.feeds
                /\ \A f \in db'.filings \ db.filings : f.feed_id = MaxFeedId(db.feeds)]_vars

(***************************************************************************)
(* Duplicates.                                                             *)
(***************************************************************************)
\* a run of detect_and_tag_duplicates of p ends in this step without an error
\* of the database
TaggerEnds(p) ==
    /\ pc[p] \in { "dt_check", "dt_tag" }
    /\ pc'[p] = "idle"
    /\ faults' = faults

\* the Filing rows of an accession number
FilingsOf(dbv, acc) == { f \in dbv.filings : f.accession_number = acc }

\* both monthly feeds are merged: 202202 re-reports a1 of 202201, accepted later
BothFeedsMerged == { r.feed_id : r \in db.feeds } = { 202201, 202202 }

\* C16: when both monthly feeds are merged, the second re-reporting accession
\* number a1 of the first with a later acceptance time, then at the end of a run
\* of the tagger exactly two Filing rows carry a1, the one with the smaller
\* filing_id has duplicate = 1 and the one with the larger has duplicate = 0
ResubmissionTagged ==
    [][\A p \in Procs :
          (BothFeedsMerged /\ TaggerEnds(p)) =>
             LET rows == FilingsOf(db', "a1")
                 ids == { f.filing_id : f \in rows }
             IN /\ Cardinality(rows) = 2
                /\ \A f \in rows :
                      /\ f.filing_id = MinId(ids) => f.duplicate = 1
                      /\ f.filing_id = MaxId(ids) => f.duplicate = 0]_vars

\* both feeds merged and the tagger has tagged the earlier row of a1
ResubmissionTaggedOnce ==
    /\ BothFeedsMerged
    /\ pc[1] = "idle" /\ op[1] = "detect_and_tag_duplicates" /\ result[1] = "returned"
    /\ \E f \in FilingsOf(db, "a1") : f.feed_id = 202201 /\ f.duplicate = 1
    /\ \E f \in FilingsOf(db, "a1") : f.feed_id = 202202 /\ f.duplicate = 0

\* the groups of the tagger: the untagged Filing rows of an accession number
\* that more than one untagged row carries
DupGroups(dbv) ==
    { g \in { { f \in FilingsOf(dbv, a) : f.duplicate = 0 } :
                a \in { f.accession_number : f \in dbv.filings } } :
        Cardinality(g) > 1 }

\* the flag of the Filing row of this id
FlagOf(dbv, id) == (CHOOSE f \in dbv.filings : f.filing_id = id).duplicate

\* p's run of the tagger does its updates and commits in this step
TagStep(p) == pc[p] = "dt_tag" /\ pc'[p] = "idle" /\ faults' = faults

RanBefore(p) ==
    \E i \in 1..Len(trackers) :
       /\ i # cur[p]
       /\ trackers[i].task_name = DB_PROCESS_DUPLICATES
       /\ trackers[i].is_completed
       /\ trackers[i].task_notes = << >>

\* C18: with no merge in between, a run of the tagger that follows a run that
\* ended without an error tags zero rows: it leaves the store as it is
TaggingIdempotent ==
    [][\A p \in Procs : (pc[p] = "dt_tag" /\ RanBefore(p)) => db' = db]_vars

\* C19: after any merges and runs of the tagger every File row has its Filing
\* row, and its duplicate flag is the flag of that Filing
FileFlagMirrorsFiling ==
    \A fl \in db.files :
       /\ \E f \in db.filings : f.filing_id = fl.filing_id
       /\ \A f \in db.filings : f.filing_id = fl.filing_id => fl.duplicate = f.duplicate

\* a merged filing the tagger has tagged, and its file with it
TaggedFilingWithFile ==
    \E f \in db.filings : \E fl \in db.files :
       fl.filing_id = f.filing_id /\ f.duplicate = 1 /\ fl.duplicate = 1

\* C20: a search of the SEC filings whose criteria do not mention duplicates
\* returns no Filing row with duplicate = 1
DefaultSearchSkipsDuplicates ==
    searchCall.done => \A f \in searchCall.out : f.duplicate = 0

(***************************************************************************)
(* The ESEF catalog.                                                       *)
(***************************************************************************)
\* p's call of get_esef_new_filings_new_entities has returned
EsefDiffDone == libCall.fn = "get_esef_new_filings_new_entities" /\ libCall.done

\* C21: the new filing keys are the keys of the catalog document that no stored
\* filing has, the new entity ids the entity ids of the catalog that no stored
\* entity has; a stored key is never returned
EsefDiffIsSetDifference ==
    EsefDiffDone =>
       LET c == libCall
           stored_keys == { r.filing_key : r \in c.stored.esef_filings }
           stored_leis == { r.entity_lei : r \in c.stored.esef_entities }
           InCatalog(k) == \E i \in 1..Len(c.esef_index) :
                              \E j \in 1..Len(c.esef_index[i].filings) :
                                 c.esef_index[i].filings[j] = k
           Listed(l) == \E i \in 1..Len(c.esef_index) : c.esef_index[i].lei = l
       IN /\ \A k \in EsefKeys :
                k \in c.out.new_esef_filings <=> (InCatalog(k) /\ k \notin stored_keys)
          /\ \A l \in EsefLeis :
                l \in c.out.new_esef_entities <=> (Listed(l) /\ l \notin stored_leis)
          /\ c.out.new_esef_filings \subseteq EsefKeys
          /\ c.out.new_esef_entities \subseteq EsefLeis

\* stored keys {A, B}, discovered keys {A, C}: the new keys are {C}
EsefDiffGivesC ==
    /\ EsefDiffDone
    /\ { r.filing_key : r \in libCall.stored.esef_filings } = { "A", "B" }
    /\ UNION { SeqRange(e.filings) : e \in SeqRange(libCall.esef_index) } = { "A", "C" }
    /\ libCall.out.new_esef_filings = { "C" }

\* C22: a failure of one new filing does not end the batch: when
\* insert_esef_new_filings closes its tracker every key of the new-filing set
\* has been attempted, completed_items = total_items
EsefBatchCompletes ==
    [][\A p \in Procs :
          (pc[p] = "ef_f_loop" /\ pc'[p] # "ef_f_loop") =>
             trackers'[cur[p]].completed_items = trackers'[cur[p]].total_items]_vars

\* the one inferred language of a filing with the most facts
DominantLang(f) == CHOOSE l \in langs_ranked(f) : TRUE

\* the loadable filings that share root, package and dominant language with f
AmendGroup(rows, f) ==
    { g \in rows : /\ g.is_loadable /\ g.langs # {}
                   /\ g.filing_root = f.filing_root
                   /\ g.report_package = f.report_package
                   /\ DominantLang(g).lang = DominantLang(f).lang }

\* C23: after tag_amended_and_multi_langs, in every group of more than one
\* loadable filing sharing root, package and dominant language, the member with
\* the highest filing_number is not flagged and every other member is
AmendedAllButHighest ==
    (libCall.fn = "tag_amended_and_multi_langs" /\ libCall.done) =>
       \A f \in { g \in libCall.rows : g.is_loadable /\ g.langs # {} } :
          LET grp == AmendGroup(libCall.rows, f)
          IN Cardinality(grp) > 1 =>
                f.is_amended_hint = (\E g \in grp : g.filing_number > f.filing_number)

(***************************************************************************)
(* Filers.                                                                 *)
(***************************************************************************)
\* the Filing row of a cik with the largest filing_id
LatestFilingOf(dbv, c) ==
    CHOOSE f \in dbv.filings :
       f.cik_number = c /\ \A g \in dbv.filings : g.cik_number = c => IdLE(g.filing_id, f.filing_id)

\* C24: 'new' are the ciks of the Filing rows that have no Filer row; 'changed'
\* are the ciks with both whose most recent filing reports a name that differs
\* case-insensitively from the stored name and is published after the last
\* recorded name change, or whose name differs and no former name is recorded
ChangedAndNewCiksExact ==
    (libCall.fn = "get_changed_and_new_ciks" /\ libCall.done) =>
       LET dbv == libCall.stored
           Filed(c) == \E f \in dbv.filings : f.cik_number = c
           Known(c) == \E r \in dbv.filers : r.cik_number = c
           Names(c) == { n \in dbv.former_names : n.cik_number = c }
           Differs(c) ==
               \E r \in dbv.filers :
                  r.cik_number = c /\ Lower(r.conformed_name) # Lower(LatestFilingOf(dbv, c).company_name)
           AfterLastChange(c) ==
               \A n \in Names(c) : LatestFilingOf(dbv, c).pub_date > n.date_changed
       IN \A c \in { "c1", "c2" } :
             /\ c \in libCall.out.new_ciks <=> (Filed(c) /\ ~Known(c))
             /\ c \in libCall.out.changed_ciks <=>
                   (Filed(c) /\ Known(c) /\ Differs(c) /\ AfterLastChange(c))

\* the ciks _filers_insert_update gave the loop of p
LoopBatch(p) == IF op[p] = "insert_new_filers" THEN work[p].new_ciks ELSE work[p].changed_ciks

\* p stays in _filer_action_loop in this step
InLoop(p) == pc[p] = "fl_loop" /\ pc'[p] = "fl_loop"

\* C25: with retry budget Retries a cik of the batch is looked up at least once
\* and at most Retries + 1 times; a step of the loop either looks up one cik
\* that waits in the round, or starts the next round with exactly the ciks
\* that failed, when no cik of the round waits any more; the loop ends
FilerLoopBounded ==
    /\ [](\A p \in Procs : \A c \in DOMAIN work[p].lookups :
             work[p].lookups[c] <= Retries + 1)
    /\ [][\A p \in Procs :
             (pc[p] = "fl_loop" /\ pc'[p] # "fl_loop") =>
                \A c \in LoopBatch(p) : work[p].lookups[c] >= 1]_vars
    /\ [][\A p \in Procs :
             (InLoop(p) /\ work'[p] # work[p]) =>
                \/ \E c \in work[p].ciks :
                      /\ work'[p].ciks = work[p].ciks \ { c }
                      /\ work'[p].lookups = [work[p].lookups EXCEPT ![c] = @ + 1]
                      /\ work'[p].retries = work[p].retries
                \/ /\ work[p].ciks = {}
                   /\ work'[p].ciks = work[p].failed_ciks
                   /\ work[p].failed_ciks # {}
                   /\ work'[p].lookups = work[p].lookups
                   /\ work'[p].retries = work[p].retries - 1]_vars
    /\ \A p \in Procs : (pc[p] = "fl_loop") ~> (pc[p] # "fl_loop")

\* a cik has failed in every round and has been looked up Retries + 1 times
LookedUpInEveryRound ==
    /\ pc[1] = "fl_loop"
    /\ work[1].retries = 0
    /\ \E c \in LoopBatch(1) : work[1].lookups[c] = Retries + 1 /\ c \in work[1].failed_ciks
    /\ \E c \in LoopBatch(1) : work[1].lookups[c] = 1 /\ c \notin work[1].failed_ciks

\* the call of the harness has been an insert of a filer the store did not hold
InsertedNew == libCall.fn = "update_filer_information" /\ libCall.runs = 1 /\ ~ libCall.is_existing /\ libCall.first.filers = {}

\* (date_changed, name) pairs the lookup result lists more than once
RepeatedPairs(info) == { info.former_names[i] : i \in { k \in 1..Len(info.former_names) : \E m \in 1..Len(info.former_names) : m # k /\ info.former_names[m] = info.former_names[k] } }

\* C26: the insert of a new filer whose lookup lists a (date, name) pair more
\* than once stores the Filer row and, with it, one FormerName row of that pair
InsertKeepsOnePerPair ==
    (InsertedNew /\ RepeatedPairs(libCall.info) # {}) =>
        /\ libCall.ok
        /\ [cik_number |-> libCall.cik, conformed_name |-> libCall.info.conformed_name] \in db.filers
        /\ \A x \in RepeatedPairs(libCall.info) :
              Cardinality({ n \in db.former_names :
                              n.cik_number = libCall.cik /\ n.name = x.name
                              /\ n.date_changed = x.date_changed }) = 1

\* the call of the harness has been an update of a filer the store held
UpdatedExisting == libCall.fn = "update_filer_information" /\ libCall.runs >= 1 /\ libCall.is_existing /\ libCall.first.filers # {}

\* C27: the update of a stored filer overwrites the canonical name and adds
\* the looked-up pairs that were not stored; every FormerName row stored
\* before is still there; the same update once more adds no row
UpdateAppendsMissingPairs ==
    UpdatedExisting =>
        /\ db.filers = { [cik_number |-> libCall.cik, conformed_name |-> libCall.info.conformed_name] }
        /\ db.former_names = libCall.first.former_names \cup UniqueFormerNames(libCall.cik, libCall.info)
        /\ libCall.runs = 2 => db.former_names = libCall.before.former_names

(***************************************************************************)
(* search_filings.                                                         *)
(***************************************************************************)
\* the call of the harness has returned its query and the rows were read
SearchReturned == libCall.fn = "search_filings" /\ libCall.done /\ libCall.raised = "none"

\* the text x, in any case and without the blanks around it, is part of col
MatchesText(col, x) == \E y \in { "acme", "globex" } : Chars(y) = Strip(Lower(x)) /\ ((y = "acme" /\ col \in { "Acme Corp", "ACME" }) \/ (y = "globex" /\ col = "Globex"))

\* the rows of the filing system with the columns the criteria look at
SearchColumns(fsys) ==
    IF fsys = "sec"
    THEN { [row |-> f, number |-> f.accession_number, identifier |-> f.cik_number,
            name |-> f.company_name, pub |-> f.pub_date] : f \in db.filings }
    ELSE { [row |-> f, number |-> f.filing_key, identifier |-> f.entity_lei,
            name |-> (CHOOSE e \in db.esef_entities : e.entity_lei = f.entity_lei).lei_legal_name,
            pub |-> f.date_added] : f \in db.esef_filings }

\* C28: a search without industry criteria returns the records that match,
\* for every criterion given, one of its comma separated values: the name in
\* any case as a part of the filer's name, the number and the identifier as
\* the record has them, the publication date on or after `from` and on or
\* before the day of `to`
SearchIsAndOfOrs ==
    LET c == libCall.criteria
    IN (SearchReturned /\ c.industry_code = None /\ c.industry_code_tree = None /\ c.industry_name = None) =>
          libCall.out =
             { r.row : r \in { x \in SearchColumns(libCall.filing_system) :
                  /\ c.publication_date_from # None => x.pub >= c.publication_date_from.day
                  /\ c.publication_date_to # None => x.pub <= c.publication_date_to.day
                  /\ c.filing_number # None => x.number \in c.filing_number.pieces
                  /\ c.filer_identifier # None => x.identifier \in c.filer_identifier.pieces
                  /\ c.filer_name # None => \E v \in c.filer_name.pieces : MatchesText(x.name, v) } }

\* C29: a call with a filing system other than sec and esef, or with a date
\* that cannot be parsed, raises XIDBException with the bad-search-parameter
\* code and returns no query
BadSearchIsRejected ==
    LET c == libCall.criteria
    IN (/\ libCall.fn = "search_filings"
        /\ libCall.done
        /\ \/ libCall.filing_system \notin { "sec", "esef" }
           \/ c.publication_date_from = Unparseable
           \/ c.publication_date_to = Unparseable) =>
          /\ libCall.raised = "XIDBException"
          /\ libCall.code = ERR_BAD_SEARCH_PARAM
          /\ libCall.out = {}

\* descendants of the industry codes in the table, the codes themselves included
RECURSIVE Descendants(_, _)
Descendants(codes, n) ==
    IF n = 0 THEN codes
    ELSE Descendants(codes \cup { r.industry_code : r \in { x \in SecIndustry : \E q \in SecIndustry : q.industry_id = x.parent_id /\ q.industry_code \in codes } }, n - 1)

\* C30: in a SEC search the industry filter is the one of the first criterion
\* given among code list, code tree and industry name: the listed codes, or
\* the codes of the tree with all their descendants, or the industries whose
\* description matches one of the names
IndustryPrecedence ==
    LET c == libCall.criteria
        codes(arg) == { to_int(x) : x \in arg.pieces }
        passes(f) ==
            IF c.industry_code # None THEN f.assigned_sic \in codes(c.industry_code)
            ELSE IF c.industry_code_tree # None
            THEN f.assigned_sic \in Descendants(codes(c.industry_code_tree), Cardinality(SecIndustry))
            ELSE IF c.industry_name # None
            THEN \E r \in SecIndustry : r.industry_code = f.assigned_sic /\ r.industry_description = "Retail"
            ELSE TRUE
        others == [c EXCEPT !.industry_code = None, !.industry_code_tree = None, !.industry_name = None]
    IN (SearchReturned /\ libCall.filing_system = "sec") =>
          libCall.out = { f \in db.filings : MatchesFilters(f, others) /\ passes(f) }

\* the call of the harness left the limit out
DefaultLimitCall == SearchReturned /\ libCall.limit = NotGiven

\* C31 as stated: a search without an explicit limit is limited to 20
\* records, with random sampling and without it
DefaultLimitIsTwenty ==
    DefaultLimitCall => (libCall.applied = IntArg(20) /\ Cardinality(libCall.out) <= 20)

\* C31, amended: a search without an explicit limit is limited to 100
\* records, with random sampling and without it; random sampling with the
\* limit None is limited to 20 records on every backend but mssql; the
\* result never has more records than the limit applied
DefaultLimitIsHundred ==
    /\ DefaultLimitCall => libCall.applied = IntArg(100)
    /\ (SearchReturned /\ libCall.random /\ libCall.limit = None /\ libCall.product # "mssql") =>
          libCall.applied = IntArg(20)
    /\ (SearchReturned /\ libCall.applied # None /\ libCall.applied.val > 0) =>
          Cardinality(libCall.out) <= libCall.applied.val

\* a random search with the limit None over four filings has returned
RandomSearchWithoutLimit ==
    /\ SearchReturned
    /\ libCall.random
    /\ libCall.limit = None
    /\ libCall.product = "sqlite"
    /\ libCall.applied = IntArg(20)
    /\ Cardinality(db.filings) = 4

(***************************************************************************)
(* Termination signals.                                                    *)
(***************************************************************************)
\* SystemExit is raised in p while p's update task holds a tracker
SignalStep(p) == pc[p] \notin { "idle", "exited" } /\ cur[p] # 0 /\ result'[p] \in { "SystemExit", "interrupted" }

\* C32: a termination signal that arrives while an update task holds an open
\* tracker closes the tracker with is_completed = false and is_interrupted =
\* true, writes nothing of the unit in progress, and ends the process: it
\* runs no further task
SignalClosesTrackerAndExits ==
    [][\A p \in Procs :
         /\ SignalStep(p) =>
               /\ trackers'[cur[p]].is_closed
               /\ ~ trackers'[cur[p]].is_completed
               /\ trackers'[cur[p]].is_interrupted
               /\ db' = db
               /\ txn'[p] = NoTxn
               /\ pc'[p] = "exited"
         /\ pc[p] = "exited" => pc'[p] = "exited"]_vars

(***************************************************************************)
(* Tracker notes.                                                          *)
(***************************************************************************)
\* C33: every note that make_tracker, _advance_tracker_counts or
\* _close_tracker has stored in a tracker row is at most 50 characters long
NotesAtMostFiftyChars ==
    \A i \in 1..Len(trackers) : \A k \in 1..Len(trackers[i].task_notes) :
        trackers[i].task_notes[k].len <= TruncateLen

(***************************************************************************)
(* Two processes in update_esef_default.                                   *)
(***************************************************************************)
\* C34: with two processes in update_esef_default on one store and one
\* catalog, no filing key is stored in more than one EsefFiling row: no
\* interleaving makes both processes insert the same key
EsefKeyStoredOnce ==
    \A r1, r2 \in db.esef_filings : r1.filing_key = r2.filing_key => r1 = r2

(***************************************************************************)
(* Surrogate filing ids over a sequence of merges.                         *)
(***************************************************************************)
\* C35: the surrogate ids computed for the merge of a new feed, a modified
\* feed or the latest filings never coincide with the id of a stored Filing
\* row, so the insert of the Filing rows never meets a stored key
MergeIdsAreFresh ==
    \A p \in Procs :
        pc[p] = "ifd_filings" =>
           \A k \in 1..Len(txn[p].filings_list) :
              \A r \in db.filings : r.filing_id # txn[p].filings_list[k].filing_id

\* every item of the latest-filings document is stored as the merge of that
\* document stores it: a Filing row of the build month with the item's tuple
LatestStored ==
    \A i \in SeqRange(remote.latest.items) :
       \E r \in db.filings : r.feed_id = remote.latest.build /\ RowTuple(r) = ItemTuple(i)

\* insert_feed_data of p prepares the rows of the latest filings in this step
PrepsLatest(p) ==
    /\ pc[p] = "uf_loop"
    /\ pc'[p] = "ifd_feed"
    /\ txn'[p].feed_data.feed_link = LATEST_FEEDS_URL

\* C36: merging the latest filings again while the document is unchanged
\* inserts no Filing and no File row, whatever the document's build month and
\* the newest stored feed are
LatestMergeIsIdempotent ==
    [][\A p \in Procs :
          (PrepsLatest(p) /\ LatestStored) =>
             /\ txn'[p].filings_list = << >>
             /\ txn'[p].files_list = << >>]_vars

(***************************************************************************)
(* A feed whose merge failed, over the following runs: the process goes on *)
(* with its loop, the remote side publishes when it likes.                 *)
(***************************************************************************)
\* update_feeds as update_sec_default calls it by default: no date range,
\* the latest filings included
DefaultRun(p) ==
    (pc[p] = "uf_list" /\ faults' = faults) =>
       /\ pc'[p] = "uf_loop"
       /\ incl'[p]
       /\ todo'[p] = prep_monthly_feeds_to_process(
                         get_existing_feeds(db.feeds), remote.listing, None, None, TRUE)

\* the runs start from a listing of first versions of one or two months
InitRetry ==
    /\ InitFeeds
    /\ Len(remote.listing) >= 1
    /\ \A i \in 1..Len(remote.listing) : remote.listing[i].last_modified_date = 1

\* between two runs the listing publishes a month or a later version of one
ListingChanges == RemoteChanges /\ remote'.latest = remote.latest

NextRetry ==
    \/ MakeTrackerInsert(1)
    \/ UpdateFeedsStep(1) /\ DefaultRun(1)
    \/ ListingChanges

SpecRetry == InitRetry /\ [][NextRetry]_vars /\ WF_vars(MakeTrackerInsert(1) \/ (UpdateFeedsStep(1) /\ DefaultRun(1)))

\* the diff of the listing against the store classifies feed f as f was
Classified(dbv, f) ==
    LET d == get_new_and_modified_feeds(get_existing_feeds(dbv.feeds), remote.listing)
    IN \E i \in 1..Len(d) :
          /\ d[i].feed_id = f.feed_id
          /\ d[i].last_modified_date = f.last_modified_date
          /\ d[i].new_or_modified = f.new_or_modified

\* the Feed row of f is stored with the last-modified stamp of the listing
MergedFeed(dbv, f) ==
    \E r \in dbv.feeds :
       r.feed_id = f.feed_id /\ r.last_modified_date = f.last_modified_date

\* insert_feed_data of a monthly feed returns to the loop of p in this step
MonthlyFeedDone(p) == idx[p] < Len(todo[p]) /\ idx'[p] = idx[p] + 1
MonthlyFeedFails(p) ==
    MonthlyFeedDone(p) /\ trackers'[cur[p]].failed_items = trackers[cur[p]].failed_items + 1

\* the loop of update_feeds of p has not come to monthly feed f yet
Waiting(p, f) ==
    /\ pc[p] \in { "uf_loop", "ifd_feed", "ifd_filings", "ifd_files", "ifd_commit" }
    /\ \E i \in (idx[p] + 1)..Len(todo[p]) : todo[p][i].feed_id = f

AllListedMerged == \A i \in 1..Len(remote.listing) : MergedFeed(db, remote.listing[i])

\* p is inside insert_feed_data
InFeedMerge(p) == pc[p] \in { "ifd_feed", "ifd_filings", "ifd_files", "ifd_commit" }

\* C38: once every listed monthly feed is merged, a run of update_feeds
\* against the unchanged listing classifies no monthly feed as new or modified,
\* whatever its date range, and writes no Feed row and no Filing or File row of
\* a monthly feed: the only rows it may add are those of the latest filings
FeedsAreAtFixpoint ==
    [][\A p \in Procs :
          /\ (pc[p] = "uf_list" /\ pc'[p] = "uf_loop" /\ AllListedMerged) =>
                todo'[p] = << >>
          /\ (InFeedMerge(p) /\ AllListedMerged /\ db' # db) =>
                /\ txn[p].feed_data.feed_link = LATEST_FEEDS_URL
                /\ db'.feeds = db.feeds]_vars

\* a second run has found nothing to merge in a listing of merged feeds
SecondRunFindsNothing ==
    \E p \in Procs :
        /\ pc[p] = "uf_loop" /\ cur[p] >= 2 /\ todo[p] = << >>
        /\ remote.listing # << >> /\ AllListedMerged
        /\ trackers[1].is_completed /\ trackers[1].failed_items = 0
        /\ trackers[1].successful_items >= Len(remote.listing)

(***************************************************************************)
(* An instance after a make_tracker that returned false.                   *)
(***************************************************************************)
\* make_tracker of p returned false and nothing has closed the instance since
Rejected(p) == ~ok[p] /\ cur[p] # 0 /\ pc[p] \in { "idle", "fl_new", "fl_existing" }

\* p calls make_tracker in this step: it gets to its query, or raises to its
\* caller, or raises into the handler of filers_quick_update
CallsMakeTracker(p) ==
    \/ pc'[p] = "mt_insert"
    \/ pc[p] = "idle" /\ result'[p] = ERR_EXISTING_TASK_IN_PROGRESS /\ result[p] # result'[p]
    \/ pc[p] \in { "fl_new", "fl_existing" } /\ pc'[p] = "idle"

\* C39: after make_tracker returned false the instance can start another
\* task: its next make_tracker gets to the query for an open tracker (and
\* returns true when there is none), so a rejected duplicate-tagging step of
\* update_sec_default does not keep the filer update from running
RejectedInstanceStartsNextTask ==
    [][\A p \in Procs :
          (Rejected(p) /\ CallsMakeTracker(p)) => pc'[p] = "mt_insert"]_vars

(***************************************************************************)
(* The counters of the filer trackers.                                     *)
(***************************************************************************)
FilerTasks == { DB_INSERT_NEW_FILERS, DB_UPDATE_EXISTING_FILERS }

\* C40: in every state a tracker of insert-new-filers or
\* update-existing-filers has completed_items = successful_items +
\* failed_items and completed_items <= total_items, and once it is closed
\* after the action loop completed_items = total_items (every retry round adds
\* the ciks it retries to total_items before it looks them up)
FilerTrackerCounts ==
    \A i \in 1..Len(trackers) :
       trackers[i].task_name \in FilerTasks =>
          /\ trackers[i].completed_items =
                trackers[i].successful_items + trackers[i].failed_items
          /\ trackers[i].completed_items <= trackers[i].total_items
          /\ (trackers[i].is_closed /\ trackers[i].is_completed) =>
                trackers[i].completed_items = trackers[i].total_items

\* a filer tracker closed after a loop with a retry round
FilerTrackerClosedAfterRetry ==
    \E i \in 1..Len(trackers) :
       /\ trackers[i].task_name \in FilerTasks
       /\ trackers[i].is_closed /\ trackers[i].is_completed
       /\ trackers[i].failed_items >= 1 /\ trackers[i].successful_items >= 1
       /\ trackers[i].total_items > trackers[i].successful_items
====
